---------------------------- MODULE Spec2Model ----------------------------
(***************************************************************************)
(* Rules engine of frontier-hex: the GameState record, validateAction /   *)
(* applyAction (one validate/apply pair per action type), the phase state  *)
(* machine, production, longest road / largest army and victory.           *)
(*                                                                         *)
(* The engine is a pure function pair; the one mutable cell is the room's  *)
(* gameState (GameRoom.processAction), replaced only by an accepted        *)
(* action, together with the update broadcast for it.                      *)
(*                                                                         *)
(*   state   the room's GameState                                          *)
(*   update  the last broadcast: the accepted action and its events        *)
(*   played  history: per card kind, the play-card actions accepted so far *)
(*   turn    history of the running turn, since the last accepted endTurn  *)
(*   budget  accepted actions still explored from the starting position    *)
(*   controller  the room's BotController: its bot seats and the place of  *)
(*           its tick loop (NoController in a room without bot seats)      *)
(***************************************************************************)
EXTENDS Integers, Sequences, FiniteSets, TLC

VARIABLES state, update, played, turn, budget, controller

vars == <<state, update, played, turn, budget, controller>>

(***************************************************************************)
(* Generic helpers                                                         *)
(***************************************************************************)
Range(s) == {s[i] : i \in 1..Len(s)}

Abs(x) == IF x < 0 THEN -x ELSE x

Min(a, b) == IF a < b THEN a ELSE b

RECURSIVE SumOver(_, _)
SumOver(S, f) ==
    IF S = {} THEN 0
    ELSE LET x == CHOOSE y \in S : TRUE IN f[x] + SumOver(S \ {x}, f)

\* number of positions of sequence s holding x
CountIn(s, x) == Cardinality({i \in 1..Len(s) : s[i] = x})

\* Array.prototype.indexOf (1-based here; 0 when absent)
IndexOf(s, x) ==
    IF \E i \in 1..Len(s) : s[i] = x
    THEN CHOOSE i \in 1..Len(s) : s[i] = x /\ \A j \in 1..(i - 1) : s[j] # x
    ELSE 0

\* Array.prototype.splice(idx, 1)
RemoveAt(s, i) == [j \in 1..(Len(s) - 1) |-> IF j < i THEN s[j] ELSE s[j + 1]]

(***************************************************************************)
(* constants.ts                                                            *)
(***************************************************************************)
RESOURCE_TYPES == {"wood", "brick", "sheep", "wheat", "ore"}

Bundle(w, b, s, h, o) == [wood |-> w, brick |-> b, sheep |-> s, wheat |-> h, ore |-> o]

SETTLEMENT_COST == Bundle(1, 1, 1, 1, 0)
CITY_COST == Bundle(0, 0, 0, 2, 3)
ROAD_COST == Bundle(1, 1, 0, 0, 0)
DEV_CARD_COST == Bundle(0, 0, 1, 1, 1)
EMPTY_RESOURCES == Bundle(0, 0, 0, 0, 0)

DEV_CARD_KINDS == {"knight", "victoryPoint", "roadBuilding", "yearOfPlenty", "monopoly"}

DEV_CARD_DECK_COMPOSITION ==
    [knight |-> 14, victoryPoint |-> 5, roadBuilding |-> 2, yearOfPlenty |-> 2, monopoly |-> 2]

TERRAIN_TO_RESOURCE ==
    [forest |-> "wood", hills |-> "brick", pasture |-> "sheep",
     fields |-> "wheat", mountains |-> "ore"]

INITIAL_SETTLEMENTS == 5
INITIAL_CITIES == 4
INITIAL_ROADS == 15
VICTORY_POINTS_TO_WIN == 10
LONGEST_ROAD_MINIMUM == 5
LARGEST_ARMY_MINIMUM == 3
MAX_HAND_SIZE_BEFORE_DISCARD == 7

(***************************************************************************)
(* board.ts: topology of the radius-2 island.  A hex is <<q, r>>, a vertex *)
(* <<q, r, "N"|"S">>, an edge <<q, r, "NE"|"E"|"SE">> (the code's keys).   *)
(***************************************************************************)
BoardRadius == 2

generateBoardHexes ==
    {<<q, r>> : q \in (-BoardRadius)..BoardRadius, r \in (-BoardRadius)..BoardRadius}
      \ {h \in ((-BoardRadius)..BoardRadius) \X ((-BoardRadius)..BoardRadius) :
            Abs(h[1] + h[2]) > BoardRadius}

hexVertices(h) ==
    LET q == h[1]  r == h[2] IN
    << <<q, r, "N">>, <<q + 1, r - 1, "S">>, <<q, r + 1, "N">>,
       <<q, r, "S">>, <<q - 1, r + 1, "N">>, <<q, r - 1, "S">> >>

hexEdgesMisplaced(h) ==
    LET q == h[1]  r == h[2] IN
    << <<q, r, "NE">>, <<q, r, "E">>, <<q, r, "SE">>,
       <<q - 1, r + 1, "NE">>, <<q - 1, r, "E">>, <<q, r + 1, "SE">> >>

hexEdges(h) ==
    LET q == h[1]  r == h[2] IN
    << <<q, r, "NE">>, <<q, r, "E">>, <<q, r, "SE">>,
       <<q - 1, r + 1, "NE">>, <<q - 1, r, "E">>, <<q, r - 1, "SE">> >>

edgeEndpoints(e) ==
    LET q == e[1]  r == e[2] IN
    CASE e[3] = "NE" -> << <<q, r, "N">>, <<q + 1, r - 1, "S">> >>
      [] e[3] = "E"  -> << <<q + 1, r - 1, "S">>, <<q, r + 1, "N">> >>
      [] e[3] = "SE" -> << <<q, r + 1, "N">>, <<q, r, "S">> >>

vertexAdjacentVerticesLopsided(v) ==
    LET q == v[1]  r == v[2] IN
    IF v[3] = "N"
    THEN {<<q + 1, r - 1, "S">>, <<q, r - 1, "S">>}
    ELSE {<<q, r + 1, "N">>, <<q - 1, r + 1, "N">>, <<q - 1, r + 2, "N">>}

vertexAdjacentVertices(v) ==
    LET q == v[1]  r == v[2] IN
    IF v[3] = "N"
    THEN {<<q + 1, r - 1, "S">>, <<q, r - 1, "S">>, <<q + 1, r - 2, "S">>}
    ELSE {<<q, r + 1, "N">>, <<q - 1, r + 1, "N">>, <<q - 1, r + 2, "N">>}

vertexAdjacentEdges(v) ==
    LET q == v[1]  r == v[2] IN
    IF v[3] = "N"
    THEN {<<q, r, "NE">>, <<q, r - 1, "SE">>, <<q, r - 1, "E">>}
    ELSE {<<q, r, "SE">>, <<q - 1, r + 1, "NE">>, <<q - 1, r + 1, "E">>}

vertexAdjacentHexes(v) ==
    LET q == v[1]  r == v[2]
        candidates == IF v[3] = "N"
                      THEN {<<q, r>>, <<q, r - 1>>, <<q + 1, r - 1>>}
                      ELSE {<<q, r>>, <<q - 1, r + 1>>, <<q, r + 1>>}
    IN candidates \cap generateBoardHexes

\* buildBoardGraph: the maps of the BoardGraph (evaluated once)
Hexes == generateBoardHexes
Vertices == UNION {Range(hexVertices(h)) : h \in Hexes}
Edges == UNION {Range(hexEdges(h)) : h \in Hexes}
vertexToHexes == [v \in Vertices |-> vertexAdjacentHexes(v)]
edgeToVertices == [e \in Edges |-> edgeEndpoints(e)]
vertexToEdges == [v \in Vertices |-> vertexAdjacentEdges(v) \cap Edges]
vertexToVertices == [v \in Vertices |-> vertexAdjacentVertices(v) \cap Vertices]
hexToVertices == [h \in Hexes |-> hexVertices(h)]


(***************************************************************************)
(* setup.ts: the generated world.  generateBoard / generatePorts /         *)
(* createDevCardDeck draw from mulberry32(seed); the layout below is their *)
(* output for seed 42, the seed of the repository's tests.  numberToken 0  *)
(* stands for null (the desert).                                           *)
(***************************************************************************)
randomSeed == 42

Tile(t, n) == [terrain |-> t, numberToken |-> n]

hexTiles ==
    [h \in Hexes |->
       CASE h = <<-2, 0>>  -> Tile("mountains", 5)
         [] h = <<-2, 1>>  -> Tile("fields", 2)
         [] h = <<-2, 2>>  -> Tile("hills", 6)
         [] h = <<-1, -1>> -> Tile("mountains", 3)
         [] h = <<-1, 0>>  -> Tile("forest", 8)
         [] h = <<-1, 1>>  -> Tile("forest", 10)
         [] h = <<-1, 2>>  -> Tile("fields", 9)
         [] h = <<0, -2>>  -> Tile("desert", 0)
         [] h = <<0, -1>>  -> Tile("mountains", 12)
         [] h = <<0, 0>>   -> Tile("fields", 11)
         [] h = <<0, 1>>   -> Tile("pasture", 4)
         [] h = <<0, 2>>   -> Tile("hills", 8)
         [] h = <<1, -2>>  -> Tile("forest", 10)
         [] h = <<1, -1>>  -> Tile("fields", 9)
         [] h = <<1, 0>>   -> Tile("forest", 4)
         [] h = <<1, 1>>   -> Tile("pasture", 5)
         [] h = <<2, -2>>  -> Tile("hills", 6)
         [] h = <<2, -1>>  -> Tile("pasture", 3)
         [] h = <<2, 0>>   -> Tile("pasture", 11)]

initialRobberHex == <<0, -2>>

Port(t, v1, v2) == [type |-> t, vertices |-> {v1, v2}]

ports ==
    { Port("wheat",   <<-2, 0, "N">>,  <<-2, -1, "S">>),
      Port("generic", <<0, -3, "S">>,  <<-1, -1, "N">>),
      Port("sheep",   <<1, -2, "N">>,  <<1, -3, "S">>),
      Port("generic", <<3, -3, "S">>,  <<2, -1, "N">>),
      Port("generic", <<2, 0, "N">>,   <<3, -1, "S">>),
      Port("wood",    <<2, 0, "S">>,   <<1, 2, "N">>),
      Port("ore",     <<-1, 3, "N">>,  <<0, 2, "S">>),
      Port("generic", <<-2, 3, "N">>,  <<-2, 2, "S">>),
      Port("brick",   <<-3, 2, "N">>,  <<-2, 1, "S">>) }

createDevCardDeck ==
    << "yearOfPlenty", "knight", "victoryPoint", "knight", "knight", "knight",
       "knight", "roadBuilding", "knight", "victoryPoint", "knight",
       "victoryPoint", "knight", "monopoly", "knight", "victoryPoint",
       "monopoly", "knight", "knight", "knight", "victoryPoint",
       "roadBuilding", "knight", "knight", "yearOfPlenty" >>

\* getSetupOrder: snake draft [0..n-1, n-1..0]
getSetupOrder(n) == [i \in 1..(2 * n) |-> IF i <= n THEN i - 1 ELSE 2 * n - i]

(***************************************************************************)
(* types.ts: GameState.  null is written NoPlayer (-1) for a seat, <<>>    *)
(* for lastDiceRoll and pendingTrade (else a one-element sequence), {} for *)
(* robberStealTargets.  vertexBuildings and edgeRoads are functions whose  *)
(* domain is the set of occupied keys.  The log is write-only and left     *)
(* out; hexTiles, ports, boardGraph and randomSeed never change and are    *)
(* the definitions above.                                                  *)
(***************************************************************************)
NoPlayer == -1
NoError == ""

Settlement == "settlement"
City == "city"

createPlayer ==
    [resources |-> EMPTY_RESOURCES,
     developmentCards |-> <<>>,
     newDevCards |-> <<>>,
     playedKnights |-> 0,
     hasPlayedDevCardThisTurn |-> FALSE,
     settlements |-> INITIAL_SETTLEMENTS,
     cities |-> INITIAL_CITIES,
     roads |-> INITIAL_ROADS,
     ports |-> {}]

initializeGame(n) ==
    [vertexBuildings |-> <<>>,
     edgeRoads |-> <<>>,
     robberHex |-> initialRobberHex,
     players |-> [i \in 0..(n - 1) |-> createPlayer],
     currentPlayerIndex |-> 0,
     phase |-> "setupSettlement",
     turnNumber |-> 0,
     setupRound |-> 1,
     lastDiceRoll |-> <<>>,
     devCardDeck |-> createDevCardDeck,
     pendingTrade |-> <<>>,
     playersNeedingToDiscard |-> {},
     robberStealTargets |-> {},
     longestRoadPlayer |-> NoPlayer,
     longestRoadLength |-> 0,
     largestArmyPlayer |-> NoPlayer,
     largestArmySize |-> 0,
     roadBuildingRoadsLeft |-> 0,
     winner |-> NoPlayer]

Seats(s) == DOMAIN s.players

NumPlayers(s) == Cardinality(Seats(s))

\* state.vertexBuildings[vk] / state.edgeRoads[ek] as a truthiness test
HasBuilding(s, v) == v \in DOMAIN s.vertexBuildings
HasRoad(s, e) == e \in DOMAIN s.edgeRoads

Building(t, p) == [type |-> t, playerIndex |-> p]

\* { ...record, [key]: value }
Put(f, k, val) == [x \in (DOMAIN f) \cup {k} |-> IF x = k THEN val ELSE f[x]]

(***************************************************************************)
(* validators/helpers.ts                                                   *)
(***************************************************************************)
hasResources(have, need) ==
    /\ have.wood >= need.wood
    /\ have.brick >= need.brick
    /\ have.sheep >= need.sheep
    /\ have.wheat >= need.wheat
    /\ have.ore >= need.ore

subtractResources(from, cost) ==
    [wood |-> from.wood - cost.wood, brick |-> from.brick - cost.brick,
     sheep |-> from.sheep - cost.sheep, wheat |-> from.wheat - cost.wheat,
     ore |-> from.ore - cost.ore]

addResources(to, add) ==
    [wood |-> to.wood + add.wood, brick |-> to.brick + add.brick,
     sheep |-> to.sheep + add.sheep, wheat |-> to.wheat + add.wheat,
     ore |-> to.ore + add.ore]

totalResources(b) == b.wood + b.brick + b.sheep + b.wheat + b.ore

addResource(b, r, amount) == [b EXCEPT ![r] = @ + amount]

\* an ActionResult
Ok(s, evs) == [valid |-> TRUE, error |-> NoError, state |-> s, events |-> evs]
Rejected(s, err) == [valid |-> FALSE, error |-> err, state |-> s, events |-> <<>>]

(***************************************************************************)
(* phases.ts                                                               *)
(***************************************************************************)
PHASE_ALLOWED_ACTIONS ==
    [setupSettlement |-> {"setupPlaceSettlement"},
     setupRoad       |-> {"setupPlaceRoad"},
     preRoll         |-> {"rollDice", "playKnight"},
     discard         |-> {"discardResources"},
     moveRobber      |-> {"moveRobber"},
     stealResource   |-> {"stealResource"},
     main            |-> {"buildSettlement", "buildRoad", "buildCity", "buyDevCard",
                          "playKnight", "playRoadBuilding", "playYearOfPlenty",
                          "playMonopoly", "tradeBank", "tradeOffer", "tradeAccept",
                          "tradeReject", "tradeConfirm", "tradeCancel", "endTurn"},
     roadBuilding    |-> {"buildRoad"},
     gameOver        |-> {}]

GamePhases == DOMAIN PHASE_ALLOWED_ACTIONS

isActionAllowedInPhase(phase, actionType) ==
    phase \in GamePhases /\ actionType \in PHASE_ALLOWED_ACTIONS[phase]

(***************************************************************************)
(* trade-ratios.ts                                                         *)
(***************************************************************************)
getTradeRatio(s, playerIndex, resource) ==
    LET player == s.players[playerIndex] IN
    IF resource \in player.ports THEN 2
    ELSE IF "generic" \in player.ports THEN 3
    ELSE 4

(***************************************************************************)
(* validators: validate(state, action) -> error string, NoError when legal *)
(***************************************************************************)
\* the distance test looking only at the vertex itself
TooCloseOnlyOnSpot(s, v) == v \in Vertices /\ HasBuilding(s, v)

\* the distance rule test shared by both settlement validators
TooClose(s, v) ==
    v \in Vertices /\ \E av \in vertexToVertices[v] : HasBuilding(s, av)

\* an edge at vertex v, other than ek, carrying a road of playerIndex
OwnRoadAt(s, v, ek, playerIndex) ==
    v \in Vertices /\
    \E aek \in vertexToEdges[v] :
        aek # ek /\ HasRoad(s, aek) /\ s.edgeRoads[aek].playerIndex = playerIndex

validateBuildSettlement(s, a) ==
    LET player == s.players[a.playerIndex] IN
    IF a.playerIndex # s.currentPlayerIndex THEN "Not your turn"
    ELSE IF s.phase # "main" THEN "Can only build settlements in Main phase"
    ELSE IF ~hasResources(player.resources, SETTLEMENT_COST)
         THEN "Insufficient resources for settlement"
    ELSE IF player.settlements <= 0 THEN "No settlement pieces remaining"
    ELSE IF a.vertexKey \notin DOMAIN vertexToHexes THEN "Invalid vertex location"
    ELSE IF HasBuilding(s, a.vertexKey) THEN "Vertex already occupied"
    ELSE IF TooClose(s, a.vertexKey) THEN "Too close to another building (distance rule)"
    ELSE IF ~\E e \in vertexToEdges[a.vertexKey] :
               HasRoad(s, e) /\ s.edgeRoads[e].playerIndex = a.playerIndex
         THEN "Must build adjacent to your own road"
    ELSE NoError

\* validateBuildRoad taking a road of the builder at an endpoint as a
\* connection whatever stands on that endpoint
validateBuildRoadThroughOpponents(s, a) ==
    LET player == s.players[a.playerIndex]
        ends == Range(edgeToVertices[a.edgeKey])
        ownBuilding == \E vk \in ends :
            HasBuilding(s, vk) /\ s.vertexBuildings[vk].playerIndex = a.playerIndex
        ownRoad == \E vk \in ends : OwnRoadAt(s, vk, a.edgeKey, a.playerIndex)
    IN
    IF a.playerIndex # s.currentPlayerIndex THEN "Not your turn"
    ELSE IF s.phase # "main" /\ s.phase # "roadBuilding"
         THEN "Can only build roads in Main or RoadBuilding phase"
    ELSE IF s.phase = "main" /\ ~hasResources(player.resources, ROAD_COST)
         THEN "Insufficient resources for road"
    ELSE IF player.roads <= 0 THEN "No road pieces remaining"
    ELSE IF a.edgeKey \notin DOMAIN edgeToVertices THEN "Invalid edge location"
    ELSE IF HasRoad(s, a.edgeKey) THEN "Edge already has a road"
    ELSE IF ~(ownBuilding \/ ownRoad)
         THEN "Road must connect to your own road, settlement, or city"
    ELSE NoError

validateBuildRoad(s, a) ==
    LET player == s.players[a.playerIndex]
        ends == Range(edgeToVertices[a.edgeKey])
        ownBuilding == \E vk \in ends :
            HasBuilding(s, vk) /\ s.vertexBuildings[vk].playerIndex = a.playerIndex
        ownRoad == \E vk \in ends :
            /\ ~(HasBuilding(s, vk) /\ s.vertexBuildings[vk].playerIndex # a.playerIndex)
            /\ OwnRoadAt(s, vk, a.edgeKey, a.playerIndex)
    IN
    IF a.playerIndex # s.currentPlayerIndex THEN "Not your turn"
    ELSE IF s.phase # "main" /\ s.phase # "roadBuilding"
         THEN "Can only build roads in Main or RoadBuilding phase"
    ELSE IF s.phase = "main" /\ ~hasResources(player.resources, ROAD_COST)
         THEN "Insufficient resources for road"
    ELSE IF player.roads <= 0 THEN "No road pieces remaining"
    ELSE IF a.edgeKey \notin DOMAIN edgeToVertices THEN "Invalid edge location"
    ELSE IF HasRoad(s, a.edgeKey) THEN "Edge already has a road"
    ELSE IF ~(ownBuilding \/ ownRoad)
         THEN "Road must connect to your own road, settlement, or city"
    ELSE NoError

validateBuildCity(s, a) ==
    LET player == s.players[a.playerIndex] IN
    IF a.playerIndex # s.currentPlayerIndex THEN "Not your turn"
    ELSE IF s.phase # "main" THEN "Can only build cities in Main phase"
    ELSE IF ~hasResources(player.resources, CITY_COST) THEN "Insufficient resources for city"
    ELSE IF player.cities <= 0 THEN "No city pieces remaining"
    ELSE IF ~HasBuilding(s, a.vertexKey) THEN "No building at this vertex"
    ELSE IF s.vertexBuildings[a.vertexKey].playerIndex # a.playerIndex THEN "Not your building"
    ELSE IF s.vertexBuildings[a.vertexKey].type # Settlement
         THEN "Can only upgrade settlements to cities"
    ELSE NoError

validateRollDice(s, a) ==
    IF a.playerIndex # s.currentPlayerIndex THEN "Not your turn"
    ELSE IF s.phase # "preRoll" THEN "Can only roll dice in PreRoll phase"
    ELSE NoError

validateBuyDevCard(s, a) ==
    LET player == s.players[a.playerIndex] IN
    IF a.playerIndex # s.currentPlayerIndex THEN "Not your turn"
    ELSE IF s.phase # "main" THEN "Can only buy development cards in Main phase"
    ELSE IF ~hasResources(player.resources, DEV_CARD_COST)
         THEN "Insufficient resources for development card"
    ELSE IF Len(s.devCardDeck) = 0 THEN "Development card deck is empty"
    ELSE NoError

\* validateKnight looking for the card among the cards bought this turn too
validateKnightWithNewCards(s, a) ==
    LET player == s.players[a.playerIndex] IN
    IF a.playerIndex # s.currentPlayerIndex THEN "Not your turn"
    ELSE IF s.phase # "preRoll" /\ s.phase # "main"
         THEN "Can only play knight in PreRoll or Main phase"
    ELSE IF player.hasPlayedDevCardThisTurn THEN "Already played a development card this turn"
    ELSE IF "knight" \notin Range(player.developmentCards \o player.newDevCards)
         THEN "No knight card in hand"
    ELSE NoError

validateKnight(s, a) ==
    LET player == s.players[a.playerIndex] IN
    IF a.playerIndex # s.currentPlayerIndex THEN "Not your turn"
    ELSE IF s.phase # "preRoll" /\ s.phase # "main"
         THEN "Can only play knight in PreRoll or Main phase"
    ELSE IF player.hasPlayedDevCardThisTurn THEN "Already played a development card this turn"
    ELSE IF "knight" \notin Range(player.developmentCards) THEN "No knight card in hand"
    ELSE NoError

validateRoadBuilding(s, a) ==
    LET player == s.players[a.playerIndex] IN
    IF a.playerIndex # s.currentPlayerIndex THEN "Not your turn"
    ELSE IF s.phase # "main" THEN "Can only play road building in Main phase"
    ELSE IF player.hasPlayedDevCardThisTurn THEN "Already played a development card this turn"
    ELSE IF "roadBuilding" \notin Range(player.developmentCards)
         THEN "No road building card in hand"
    ELSE IF player.roads <= 0 THEN "No road pieces remaining"
    ELSE NoError

validateYearOfPlenty(s, a) ==
    LET player == s.players[a.playerIndex] IN
    IF a.playerIndex # s.currentPlayerIndex THEN "Not your turn"
    ELSE IF s.phase # "main" THEN "Can only play year of plenty in Main phase"
    ELSE IF player.hasPlayedDevCardThisTurn THEN "Already played a development card this turn"
    ELSE IF "yearOfPlenty" \notin Range(player.developmentCards)
         THEN "No year of plenty card in hand"
    ELSE IF a.resource1 \notin RESOURCE_TYPES \/ a.resource2 \notin RESOURCE_TYPES
         THEN "Invalid resource type"
    ELSE NoError

validateMonopoly(s, a) ==
    LET player == s.players[a.playerIndex] IN
    IF a.playerIndex # s.currentPlayerIndex THEN "Not your turn"
    ELSE IF s.phase # "main" THEN "Can only play monopoly in Main phase"
    ELSE IF player.hasPlayedDevCardThisTurn THEN "Already played a development card this turn"
    ELSE IF "monopoly" \notin Range(player.developmentCards) THEN "No monopoly card in hand"
    ELSE IF a.resource \notin RESOURCE_TYPES THEN "Invalid resource type"
    ELSE NoError

validateMoveRobber(s, a) ==
    IF a.playerIndex # s.currentPlayerIndex THEN "Not your turn"
    ELSE IF s.phase # "moveRobber" THEN "Not in MoveRobber phase"
    ELSE IF a.hex = s.robberHex THEN "Must move robber to a different hex"
    ELSE IF a.hex \notin Hexes THEN "Invalid hex location"
    ELSE NoError

validateStealResource(s, a) ==
    IF a.playerIndex # s.currentPlayerIndex THEN "Not your turn"
    ELSE IF s.phase # "stealResource" THEN "Not in StealResource phase"
    ELSE IF a.targetPlayerIndex \notin s.robberStealTargets THEN "Invalid steal target"
    ELSE IF a.targetPlayerIndex = a.playerIndex THEN "Cannot steal from yourself"
    ELSE NoError

\* validateDiscard without the check that the seat is listed
validateDiscardAnySeat(s, a) ==
    IF s.phase # "discard" THEN "Not in Discard phase"
    ELSE IF totalResources(a.resources) # totalResources(s.players[a.playerIndex].resources) \div 2
         THEN "Must discard exactly half"
    ELSE IF ~hasResources(s.players[a.playerIndex].resources, a.resources)
         THEN "Cannot discard resources you do not have"
    ELSE NoError

validateDiscard(s, a) ==
    LET player == s.players[a.playerIndex]
        handSize == totalResources(player.resources)
        mustDiscard == handSize \div 2
        discarding == totalResources(a.resources)
    IN
    IF s.phase # "discard" THEN "Not in Discard phase"
    ELSE IF a.playerIndex \notin s.playersNeedingToDiscard
         THEN "This player does not need to discard"
    ELSE IF discarding # mustDiscard
         THEN "Must discard exactly " \o ToString(mustDiscard) \o " cards, got "
              \o ToString(discarding)
    ELSE IF ~hasResources(player.resources, a.resources)
         THEN "Cannot discard resources you do not have"
    ELSE NoError

Pending(s) == s.pendingTrade[1]

validateTradeBank(s, a) ==
    LET ratio == getTradeRatio(s, a.playerIndex, a.give)
        player == s.players[a.playerIndex]
    IN
    IF a.playerIndex # s.currentPlayerIndex THEN "Not your turn"
    ELSE IF s.phase # "main" THEN "Can only trade in Main phase"
    ELSE IF player.resources[a.give] < ratio
         THEN "Need " \o ToString(ratio) \o " " \o a.give \o " to trade (have "
              \o ToString(player.resources[a.give]) \o ")"
    ELSE IF a.give = a.receive THEN "Cannot trade a resource for itself"
    ELSE NoError

\* validateTradeOffer without the check for a pending trade
validateTradeOfferOverPending(s, a) ==
    LET player == s.players[a.playerIndex] IN
    IF a.playerIndex # s.currentPlayerIndex THEN "Not your turn"
    ELSE IF s.phase # "main" THEN "Can only trade in Main phase"
    ELSE IF ~hasResources(player.resources, a.offering) THEN "Insufficient resources to offer"
    ELSE IF totalResources(a.offering) = 0 THEN "Must offer at least one resource"
    ELSE IF totalResources(a.requesting) = 0 THEN "Must request at least one resource"
    ELSE NoError

validateTradeOffer(s, a) ==
    LET player == s.players[a.playerIndex] IN
    IF a.playerIndex # s.currentPlayerIndex THEN "Not your turn"
    ELSE IF s.phase # "main" THEN "Can only trade in Main phase"
    ELSE IF s.pendingTrade # <<>> THEN "A trade is already pending"
    ELSE IF ~hasResources(player.resources, a.offering) THEN "Insufficient resources to offer"
    ELSE IF totalResources(a.offering) = 0 THEN "Must offer at least one resource"
    ELSE IF totalResources(a.requesting) = 0 THEN "Must request at least one resource"
    ELSE NoError

validateTradeAccept(s, a) ==
    IF s.phase # "main" THEN "Can only trade in Main phase"
    ELSE IF s.pendingTrade = <<>> THEN "No pending trade"
    ELSE IF a.playerIndex = Pending(s).fromPlayer THEN "Cannot accept your own trade"
    ELSE IF ~hasResources(s.players[a.playerIndex].resources, Pending(s).requesting)
         THEN "Insufficient resources to accept this trade"
    ELSE NoError

validateTradeReject(s, a) ==
    IF s.phase # "main" THEN "Can only trade in Main phase"
    ELSE IF s.pendingTrade = <<>> THEN "No pending trade"
    ELSE IF a.playerIndex = Pending(s).fromPlayer THEN "Cannot reject your own trade"
    ELSE NoError

validateTradeConfirm(s, a) ==
    IF a.playerIndex # s.currentPlayerIndex THEN "Not your turn"
    ELSE IF s.phase # "main" THEN "Can only trade in Main phase"
    ELSE IF s.pendingTrade = <<>> THEN "No pending trade"
    ELSE IF Pending(s).fromPlayer # a.playerIndex THEN "Only the offering player can confirm"
    ELSE IF ~(a.targetPlayerIndex \in DOMAIN Pending(s).responses
              /\ Pending(s).responses[a.targetPlayerIndex] = "accept")
         THEN "Target player has not accepted"
    ELSE IF ~hasResources(s.players[a.playerIndex].resources, Pending(s).offering)
         THEN "Offering player no longer has the resources"
    ELSE IF ~hasResources(s.players[a.targetPlayerIndex].resources, Pending(s).requesting)
         THEN "Accepting player no longer has the resources"
    ELSE NoError

validateTradeCancel(s, a) ==
    IF a.playerIndex # s.currentPlayerIndex THEN "Not your turn"
    ELSE IF s.phase # "main" THEN "Can only trade in Main phase"
    ELSE IF s.pendingTrade = <<>> THEN "No pending trade"
    ELSE IF Pending(s).fromPlayer # a.playerIndex THEN "Only the offering player can cancel"
    ELSE NoError

\* validateEndTurn without its phase check
validateEndTurnAnyPhase(s, a) ==
    IF a.playerIndex # s.currentPlayerIndex THEN "Not your turn" ELSE NoError

validateEndTurn(s, a) ==
    IF a.playerIndex # s.currentPlayerIndex THEN "Not your turn"
    ELSE IF s.phase # "main" THEN "Can only end turn in Main phase"
    ELSE NoError

validateSetupSettlement(s, a) ==
    IF s.phase # "setupSettlement" THEN "Not in SetupSettlement phase"
    ELSE IF a.playerIndex # s.currentPlayerIndex THEN "Not your turn"
    ELSE IF a.vertexKey \notin DOMAIN vertexToHexes THEN "Invalid vertex location"
    ELSE IF HasBuilding(s, a.vertexKey) THEN "Vertex already occupied"
    ELSE IF TooClose(s, a.vertexKey) THEN "Too close to another building (distance rule)"
    ELSE NoError

\* the player's settlements, and those of them with no adjacent road of the player
PlayerSettlements(s, playerIndex) ==
    {vk \in DOMAIN s.vertexBuildings :
        s.vertexBuildings[vk].playerIndex = playerIndex
        /\ s.vertexBuildings[vk].type = Settlement}

RoadlessSettlements(s, playerIndex) ==
    {vk \in PlayerSettlements(s, playerIndex) :
        vk \in Vertices /\ ~OwnRoadAt(s, vk, <<>>, playerIndex)}

\* findLastPlacedSettlement with its test inverted: the first settlement of the
\* player that has an adjacent own road
findSettlementWithRoad(s, playerIndex) ==
    IF PlayerSettlements(s, playerIndex) \ RoadlessSettlements(s, playerIndex) # {}
    THEN CHOOSE vk \in PlayerSettlements(s, playerIndex) \ RoadlessSettlements(s, playerIndex) : TRUE
    ELSE IF PlayerSettlements(s, playerIndex) # {}
    THEN CHOOSE vk \in PlayerSettlements(s, playerIndex) : TRUE
    ELSE <<>>

\* The scan returns the first settlement of the player without an adjacent own
\* road, else the last settlement scanned (none: null, here <<>>).  The scan
\* order is the insertion order of vertexBuildings, which the state does not
\* record: any member of the candidate set can be the one returned.
findLastPlacedSettlement(s, playerIndex) ==
    IF RoadlessSettlements(s, playerIndex) # {}
    THEN CHOOSE vk \in RoadlessSettlements(s, playerIndex) : TRUE
    ELSE IF PlayerSettlements(s, playerIndex) # {}
    THEN CHOOSE vk \in PlayerSettlements(s, playerIndex) : TRUE
    ELSE <<>>

validateSetupRoad(s, a) ==
    LET lastSettlement == findLastPlacedSettlement(s, a.playerIndex) IN
    IF s.phase # "setupRoad" THEN "Not in SetupRoad phase"
    ELSE IF a.playerIndex # s.currentPlayerIndex THEN "Not your turn"
    ELSE IF a.edgeKey \notin DOMAIN edgeToVertices THEN "Invalid edge location"
    ELSE IF HasRoad(s, a.edgeKey) THEN "Edge already has a road"
    ELSE IF lastSettlement = <<>> THEN "No settlement found to connect road to"
    ELSE IF lastSettlement \notin DOMAIN vertexToEdges THEN "Invalid settlement location"
    ELSE IF a.edgeKey \notin vertexToEdges[lastSettlement]
         THEN "Road must be adjacent to your last placed settlement"
    ELSE NoError

(***************************************************************************)
(* production.ts                                                           *)
(***************************************************************************)
\* ProducedAmount paying on the hex of the robber as on any other
ProducedAmountUnderRobber(s, diceTotal, playerIndex, r) ==
    LET hexes == {h \in DOMAIN hexTiles :
                     /\ hexTiles[h].numberToken = diceTotal
                     /\ hexTiles[h].terrain \in DOMAIN TERRAIN_TO_RESOURCE
                     /\ TERRAIN_TO_RESOURCE[hexTiles[h].terrain] = r}
        hits == {hv \in hexes \X (1..6) :
                    LET vk == hexToVertices[hv[1]][hv[2]] IN
                    HasBuilding(s, vk) /\ s.vertexBuildings[vk].playerIndex = playerIndex}
        amount == [hv \in hits |->
                     IF s.vertexBuildings[hexToVertices[hv[1]][hv[2]]].type = City
                     THEN 2 ELSE 1]
    IN SumOver(hits, amount)

\* what resource r the buildings of playerIndex yield on a roll of diceTotal
ProducedAmount(s, diceTotal, playerIndex, r) ==
    LET hexes == {h \in DOMAIN hexTiles :
                     /\ hexTiles[h].numberToken = diceTotal
                     /\ h # s.robberHex
                     /\ hexTiles[h].terrain \in DOMAIN TERRAIN_TO_RESOURCE
                     /\ TERRAIN_TO_RESOURCE[hexTiles[h].terrain] = r}
        \* one contribution per (hex, corner) pair holding a building of the player
        hits == {hv \in hexes \X (1..6) :
                    LET vk == hexToVertices[hv[1]][hv[2]] IN
                    HasBuilding(s, vk) /\ s.vertexBuildings[vk].playerIndex = playerIndex}
        amount == [hv \in hits |->
                     IF s.vertexBuildings[hexToVertices[hv[1]][hv[2]]].type = City
                     THEN 2 ELSE 1]
    IN SumOver(hits, amount)

playerResourceDeltas(s, diceTotal) ==
    [i \in Seats(s) |-> [r \in RESOURCE_TYPES |-> ProducedAmount(s, diceTotal, i, r)]]

\* the seats in index order, as a sequence
RECURSIVE SeatSeq(_, _)
SeatSeq(from, n) == IF from >= n THEN <<>> ELSE <<from>> \o SeatSeq(from + 1, n)

\* hand the deltas out: one event per seat that gains something
distribute(s, delta) ==
    LET gainers == SelectSeq(SeatSeq(0, NumPlayers(s)),
                             LAMBDA i : totalResources(delta[i]) # 0)
    IN [state |-> [s EXCEPT !.players =
                       [i \in Seats(s) |->
                          IF totalResources(delta[i]) = 0 THEN s.players[i]
                          ELSE [s.players[i] EXCEPT
                                   !.resources = addResources(@, delta[i])]]],
        events |-> [k \in 1..Len(gainers) |->
                      [type |-> "resourcesProduced", playerIndex |-> gainers[k],
                       resources |-> delta[gainers[k]]]]]

produceResources(s, diceTotal) == distribute(s, playerResourceDeltas(s, diceTotal))

(***************************************************************************)
(* longest-road.ts                                                         *)
(***************************************************************************)
OtherEnd(ek, vk) ==
    IF edgeToVertices[ek][1] = vk THEN edgeToVertices[ek][2] ELSE edgeToVertices[ek][1]

OpponentBuildingAt(s, vk, playerIndex) ==
    HasBuilding(s, vk) /\ s.vertexBuildings[vk].playerIndex # playerIndex

MaxOf(S) == CHOOSE x \in S : \A y \in S : y <= x

\* the greatest length the depth-first walk records from currentVertexKey on
RECURSIVE dfs(_, _, _, _, _)
dfs(s, playerIndex, currentVertexKey, visited, length) ==
    LET playerEdgeKeys == {ek \in DOMAIN s.edgeRoads :
                              s.edgeRoads[ek].playerIndex = playerIndex}
        next == (vertexToEdges[currentVertexKey] \cap playerEdgeKeys) \ visited
    IN MaxOf({length} \cup
             {IF OpponentBuildingAt(s, OtherEnd(ek, currentVertexKey), playerIndex)
              THEN length + 1
              ELSE dfs(s, playerIndex, OtherEnd(ek, currentVertexKey),
                       visited \cup {ek}, length + 1) : ek \in next})

\* calculateLongestRoad measuring as if no corner were built on
calculateLongestRoadThroughBuildings(s, playerIndex) ==
    LET playerEdgeKeys == {ek \in DOMAIN s.edgeRoads :
                              s.edgeRoads[ek].playerIndex = playerIndex}
    IN IF playerEdgeKeys = {} THEN 0
       ELSE MaxOf({dfs([s EXCEPT !.vertexBuildings = <<>>], playerIndex,
                       edgeToVertices[ek][k], {ek}, 1) :
                   ek \in playerEdgeKeys, k \in {1, 2}})

calculateLongestRoad(s, playerIndex) ==
    LET playerEdgeKeys == {ek \in DOMAIN s.edgeRoads :
                              s.edgeRoads[ek].playerIndex = playerIndex}
    IN IF playerEdgeKeys = {} THEN 0
       ELSE MaxOf({IF OpponentBuildingAt(s, edgeToVertices[ek][k], playerIndex)
                   THEN 1
                   ELSE dfs(s, playerIndex, edgeToVertices[ek][k], {ek}, 1) :
                   ek \in playerEdgeKeys, k \in {1, 2}})

\* holder update shared in shape by longest road and largest army: sizes[i]
\* is the seat's measure, minimum the threshold, holder the current holder
AwardHolder(sizes, minimum, holder) ==
    LET qualifying == {i \in DOMAIN sizes : sizes[i] >= minimum}
        maxLen == IF qualifying = {} THEN 0 ELSE MaxOf({sizes[i] : i \in qualifying})
        atMax == {i \in qualifying : sizes[i] = maxLen}
        tie == Cardinality(atMax) > 1
    IN IF qualifying = {} THEN [player |-> NoPlayer, size |-> 0]
       ELSE IF tie
            THEN IF holder # NoPlayer /\ sizes[holder] = maxLen
                 THEN [player |-> holder, size |-> maxLen]
                 ELSE [player |-> NoPlayer, size |-> 0]
       ELSE [player |-> CHOOSE i \in atMax : TRUE, size |-> maxLen]

\* updateLongestRoad handing the award to the lowest seat among those level
updateLongestRoadLowestSeat(s) ==
    LET lengths == [i \in Seats(s) |-> calculateLongestRoad(s, i)]
        level == {i \in Seats(s) : lengths[i] >= LONGEST_ROAD_MINIMUM
                                   /\ \A j \in Seats(s) : lengths[j] <= lengths[i]}
    IN IF level = {} THEN [s EXCEPT !.longestRoadPlayer = NoPlayer, !.longestRoadLength = 0]
       ELSE [s EXCEPT !.longestRoadPlayer = CHOOSE i \in level : \A j \in level : i <= j,
                      !.longestRoadLength = lengths[CHOOSE i \in level : TRUE]]

updateLongestRoad(s) ==
    LET lengths == [i \in Seats(s) |-> calculateLongestRoad(s, i)]
        award == AwardHolder(lengths, LONGEST_ROAD_MINIMUM, s.longestRoadPlayer)
    IN [s EXCEPT !.longestRoadPlayer = award.player, !.longestRoadLength = award.size]

(***************************************************************************)
(* largest-army.ts                                                         *)
(***************************************************************************)
\* updateLargestArmy handing the award to the lowest seat among those level
updateLargestArmyLowestSeat(s) ==
    LET knights == [i \in Seats(s) |-> s.players[i].playedKnights]
        level == {i \in Seats(s) : knights[i] >= LARGEST_ARMY_MINIMUM
                                   /\ \A j \in Seats(s) : knights[j] <= knights[i]}
    IN IF level = {} THEN [s EXCEPT !.largestArmyPlayer = NoPlayer, !.largestArmySize = 0]
       ELSE [s EXCEPT !.largestArmyPlayer = CHOOSE i \in level : \A j \in level : i <= j,
                      !.largestArmySize = knights[CHOOSE i \in level : TRUE]]

updateLargestArmy(s) ==
    LET knights == [i \in Seats(s) |-> s.players[i].playedKnights]
        award == AwardHolder(knights, LARGEST_ARMY_MINIMUM, s.largestArmyPlayer)
    IN [s EXCEPT !.largestArmyPlayer = award.player, !.largestArmySize = award.size]

(***************************************************************************)
(* victory.ts                                                              *)
(***************************************************************************)
BuildingsOf(s, playerIndex, type) ==
    {vk \in DOMAIN s.vertexBuildings :
        s.vertexBuildings[vk].playerIndex = playerIndex
        /\ s.vertexBuildings[vk].type = type}

calculateVictoryPoints(s, playerIndex) ==
    LET player == s.players[playerIndex] IN
      Cardinality(BuildingsOf(s, playerIndex, Settlement))
    + 2 * Cardinality(BuildingsOf(s, playerIndex, City))
    + (IF s.longestRoadPlayer = playerIndex THEN 2 ELSE 0)
    + (IF s.largestArmyPlayer = playerIndex THEN 2 ELSE 0)
    + CountIn(player.developmentCards, "victoryPoint")
    + CountIn(player.newDevCards, "victoryPoint")

\* checkVictory with the threshold compared strictly
checkVictoryAboveThreshold(s) ==
    LET winners == {i \in Seats(s) : calculateVictoryPoints(s, i) > VICTORY_POINTS_TO_WIN}
    IN IF winners = {} THEN NoPlayer
       ELSE CHOOSE i \in winners : \A j \in winners : i <= j

\* the first seat, in index order, with enough points (NoPlayer: null)
checkVictory(s) ==
    LET winners == {i \in Seats(s) : calculateVictoryPoints(s, i) >= VICTORY_POINTS_TO_WIN}
    IN IF winners = {} THEN NoPlayer
       ELSE CHOOSE i \in winners : \A j \in winners : i <= j

\* the tail shared by the building appliers: record a winner and end the game
WithVictory(s) ==
    IF checkVictory(s) # NoPlayer
    THEN [s EXCEPT !.winner = checkVictory(s), !.phase = "gameOver"]
    ELSE s

(***************************************************************************)
(* appliers: apply(state, action) -> ActionResult, for a validated action  *)
(***************************************************************************)
\* port types of the ports that have vk as one of their two vertices
PortTypesAt(vk) == {p.type : p \in {q \in ports : vk \in q.vertices}}

assignPortIfApplicable(s, vk, playerIndex) ==
    [s EXCEPT !.players[playerIndex].ports = @ \cup PortTypesAt(vk)]

applyBuildSettlement(s, a) ==
    LET paid == [s EXCEPT
                   !.players[a.playerIndex].resources = subtractResources(@, SETTLEMENT_COST),
                   !.players[a.playerIndex].settlements = @ - 1,
                   !.vertexBuildings = Put(@, a.vertexKey, Building(Settlement, a.playerIndex))]
        newState == updateLongestRoad(assignPortIfApplicable(paid, a.vertexKey, a.playerIndex))
    IN Ok(WithVictory(newState),
          <<[type |-> "settlementBuilt", playerIndex |-> a.playerIndex,
             vertexKey |-> a.vertexKey]>>)

\* buildRoad charging the road's cost in RoadBuilding as in Main
applyBuildRoadAlwaysPaid(s, a) ==
    LET paid == [s EXCEPT !.players[a.playerIndex].resources =
                              subtractResources(@, ROAD_COST)]
        placed == [paid EXCEPT !.players[a.playerIndex].roads = @ - 1,
                               !.edgeRoads = Put(@, a.edgeKey, [playerIndex |-> a.playerIndex])]
        phased == IF s.phase = "roadBuilding"
                  THEN [placed EXCEPT
                          !.roadBuildingRoadsLeft = s.roadBuildingRoadsLeft - 1,
                          !.phase = IF s.roadBuildingRoadsLeft - 1 <= 0 THEN "main" ELSE @]
                  ELSE placed
    IN Ok(WithVictory(updateLongestRoad(phased)),
          <<[type |-> "roadBuilt", playerIndex |-> a.playerIndex, edgeKey |-> a.edgeKey]>>)

applyBuildRoad(s, a) ==
    LET paid == IF s.phase = "main"
                THEN [s EXCEPT !.players[a.playerIndex].resources =
                                   subtractResources(@, ROAD_COST)]
                ELSE s
        placed == [paid EXCEPT !.players[a.playerIndex].roads = @ - 1,
                               !.edgeRoads = Put(@, a.edgeKey, [playerIndex |-> a.playerIndex])]
        phased == IF s.phase = "roadBuilding"
                  THEN [placed EXCEPT
                          !.roadBuildingRoadsLeft = s.roadBuildingRoadsLeft - 1,
                          !.phase = IF s.roadBuildingRoadsLeft - 1 <= 0 THEN "main" ELSE @]
                  ELSE placed
    IN Ok(WithVictory(updateLongestRoad(phased)),
          <<[type |-> "roadBuilt", playerIndex |-> a.playerIndex, edgeKey |-> a.edgeKey]>>)

\* buildCity that does not hand the settlement piece back to the supply
applyBuildCityKeepingPiece(s, a) ==
    LET newState == [s EXCEPT
                       !.players[a.playerIndex].resources = subtractResources(@, CITY_COST),
                       !.players[a.playerIndex].cities = @ - 1,
                       !.vertexBuildings = Put(@, a.vertexKey, Building(City, a.playerIndex))]
    IN Ok(WithVictory(newState),
          <<[type |-> "cityBuilt", playerIndex |-> a.playerIndex, vertexKey |-> a.vertexKey]>>)

applyBuildCity(s, a) ==
    LET newState == [s EXCEPT
                       !.players[a.playerIndex].resources = subtractResources(@, CITY_COST),
                       !.players[a.playerIndex].cities = @ - 1,
                       !.players[a.playerIndex].settlements = @ + 1,
                       !.vertexBuildings = Put(@, a.vertexKey, Building(City, a.playerIndex))]
    IN Ok(WithVictory(newState),
          <<[type |-> "cityBuilt", playerIndex |-> a.playerIndex, vertexKey |-> a.vertexKey]>>)

\* dice: the pair <<die1, die2>> the seeded generator yields for this call
\* a roll other than seven: the production result, in the main phase
afterProduction(result, diceRolled) ==
    Ok([result.state EXCEPT !.phase = "main"], <<diceRolled>> \o result.events)

\* applyRollDice listing the seats that hold 7 cards or more
applyRollDiceFromSeven(s, a, dice) ==
    LET total == dice[1] + dice[2]
        rolled == [s EXCEPT !.lastDiceRoll = dice]
        diceRolled == [type |-> "diceRolled", playerIndex |-> a.playerIndex,
                       dice |-> dice, total |-> total]
        needToDiscard == {i \in Seats(s) :
                            totalResources(s.players[i].resources)
                              >= MAX_HAND_SIZE_BEFORE_DISCARD}
    IN IF total = 7
       THEN IF needToDiscard # {}
            THEN Ok([rolled EXCEPT !.playersNeedingToDiscard = needToDiscard,
                                   !.phase = "discard"],
                    <<diceRolled, [type |-> "mustDiscard", players |-> needToDiscard]>>)
            ELSE Ok([rolled EXCEPT !.phase = "moveRobber"],
                    <<diceRolled, [type |-> "moveRobber"]>>)
       ELSE afterProduction(produceResources(rolled, total), diceRolled)

applyRollDice(s, a, dice) ==
    LET total == dice[1] + dice[2]
        rolled == [s EXCEPT !.lastDiceRoll = dice]
        diceRolled == [type |-> "diceRolled", playerIndex |-> a.playerIndex,
                       dice |-> dice, total |-> total]
        needToDiscard == {i \in Seats(s) :
                            totalResources(s.players[i].resources)
                              > MAX_HAND_SIZE_BEFORE_DISCARD}
    IN IF total = 7
       THEN IF needToDiscard # {}
            THEN Ok([rolled EXCEPT !.playersNeedingToDiscard = needToDiscard,
                                   !.phase = "discard"],
                    <<diceRolled, [type |-> "mustDiscard", players |-> needToDiscard]>>)
            ELSE Ok([rolled EXCEPT !.phase = "moveRobber"],
                    <<diceRolled, [type |-> "moveRobber"]>>)
       ELSE afterProduction(produceResources(rolled, total), diceRolled)

\* buyDevCard that reads the top card but leaves it on the deck
applyBuyDevCardLeavingDeck(s, a) ==
    LET card == Head(s.devCardDeck)
        newState == [s EXCEPT
                       !.players[a.playerIndex].resources = subtractResources(@, DEV_CARD_COST),
                       !.players[a.playerIndex].newDevCards = Append(@, card)]
    IN Ok(WithVictory(newState),
          <<[type |-> "devCardBought", playerIndex |-> a.playerIndex, card |-> card]>>)

applyBuyDevCard(s, a) ==
    LET card == Head(s.devCardDeck)
        newState == [s EXCEPT
                       !.players[a.playerIndex].resources = subtractResources(@, DEV_CARD_COST),
                       !.players[a.playerIndex].newDevCards = Append(@, card),
                       !.devCardDeck = Tail(@)]
    IN Ok(WithVictory(newState),
          <<[type |-> "devCardBought", playerIndex |-> a.playerIndex, card |-> card]>>)

\* PlayCard leaving the turn unmarked
PlayCardUnmarked(s, playerIndex, card) ==
    [s EXCEPT !.players[playerIndex].developmentCards = RemoveAt(@, IndexOf(@, card))]

\* remove the first card of the given kind from the usable hand and mark the turn
PlayCard(s, playerIndex, card) ==
    [s EXCEPT !.players[playerIndex].developmentCards = RemoveAt(@, IndexOf(@, card)),
              !.players[playerIndex].hasPlayedDevCardThisTurn = TRUE]

applyKnight(s, a) ==
    LET newState == [PlayCard(s, a.playerIndex, "knight") EXCEPT
                       !.players[a.playerIndex].playedKnights = @ + 1,
                       !.phase = "moveRobber"]
    IN Ok(WithVictory(updateLargestArmy(newState)),
          <<[type |-> "knightPlayed", playerIndex |-> a.playerIndex]>>)

applyRoadBuilding(s, a) ==
    Ok([PlayCard(s, a.playerIndex, "roadBuilding") EXCEPT
          !.phase = "roadBuilding",
          !.roadBuildingRoadsLeft = Min(2, s.players[a.playerIndex].roads)],
       <<[type |-> "roadBuildingPlayed", playerIndex |-> a.playerIndex]>>)

applyYearOfPlenty(s, a) ==
    Ok([PlayCard(s, a.playerIndex, "yearOfPlenty") EXCEPT
          !.players[a.playerIndex].resources =
              addResource(addResource(@, a.resource1, 1), a.resource2, 1)],
       <<[type |-> "yearOfPlentyPlayed", playerIndex |-> a.playerIndex,
          resource1 |-> a.resource1, resource2 |-> a.resource2]>>)

applyMonopoly(s, a) ==
    LET afterPlay == PlayCard(s, a.playerIndex, "monopoly")
        victims == {i \in Seats(s) \ {a.playerIndex} : s.players[i].resources[a.resource] > 0}
        taken == [i \in victims |-> s.players[i].resources[a.resource]]
        totalStolen == SumOver(victims, taken)
    IN Ok([afterPlay EXCEPT !.players =
              [i \in Seats(s) |->
                 IF i = a.playerIndex
                 THEN [afterPlay.players[i] EXCEPT !.resources[a.resource] = @ + totalStolen]
                 ELSE IF i \in victims
                 THEN [afterPlay.players[i] EXCEPT !.resources[a.resource] = 0]
                 ELSE afterPlay.players[i]]],
          <<[type |-> "monopolyPlayed", playerIndex |-> a.playerIndex,
             resource |-> a.resource, totalStolen |-> totalStolen]>>)

\* getPhaseAfterRobber without the case of the dice not rolled yet
getPhaseAfterRobberAlwaysMain(s) == "main"

getPhaseAfterRobber(s) ==
    IF s.lastDiceRoll # <<>> /\ s.lastDiceRoll[1] + s.lastDiceRoll[2] = 7 THEN "main"
    ELSE IF s.lastDiceRoll = <<>> THEN "preRoll"
    ELSE "main"

\* applyMoveRobber without the filter on the hands of the targets
applyMoveRobberAnyHand(s, a) ==
    LET stealTargets == {s.vertexBuildings[vk].playerIndex :
                            vk \in {v \in Range(hexToVertices[a.hex]) :
                                       OpponentBuildingAt(s, v, a.playerIndex)}}
        robberMoved == [type |-> "robberMoved", hex |-> a.hex]
    IN IF stealTargets = {}
       THEN Ok([s EXCEPT !.robberHex = a.hex,
                         !.phase = getPhaseAfterRobber(s),
                         !.robberStealTargets = {}],
               <<robberMoved>>)
       ELSE Ok([s EXCEPT !.robberHex = a.hex,
                         !.robberStealTargets = stealTargets,
                         !.phase = "stealResource"],
               <<robberMoved, [type |-> "mustSteal", targets |-> stealTargets]>>)

applyMoveRobber(s, a) ==
    LET stealTargets == {s.vertexBuildings[vk].playerIndex :
                            vk \in {v \in Range(hexToVertices[a.hex]) :
                                       OpponentBuildingAt(s, v, a.playerIndex)}}
        targetsWithResources == {i \in stealTargets : totalResources(s.players[i].resources) > 0}
        robberMoved == [type |-> "robberMoved", hex |-> a.hex]
    IN IF targetsWithResources = {}
       THEN Ok([s EXCEPT !.robberHex = a.hex,
                         !.phase = getPhaseAfterRobber(s),
                         !.robberStealTargets = {}],
               <<robberMoved>>)
       ELSE Ok([s EXCEPT !.robberHex = a.hex,
                         !.robberStealTargets = targetsWithResources,
                         !.phase = "stealResource"],
               <<robberMoved, [type |-> "mustSteal", targets |-> targetsWithResources]>>)

\* the resource kinds the random index can land on in the target's hand
availableResources(s, targetPlayerIndex) ==
    {r \in RESOURCE_TYPES : s.players[targetPlayerIndex].resources[r] > 0}

\* stolenResource: the card the seeded generator picks among availableResources
applyStealResource(s, a, stolenResource) ==
    LET done == [s EXCEPT !.robberStealTargets = {}, !.phase = getPhaseAfterRobber(s)] IN
    IF availableResources(s, a.targetPlayerIndex) # {}
    THEN Ok([done EXCEPT
               !.players[a.targetPlayerIndex].resources[stolenResource] = @ - 1,
               !.players[a.playerIndex].resources[stolenResource] = @ + 1],
            <<[type |-> "resourceStolen", playerIndex |-> a.playerIndex,
               targetPlayerIndex |-> a.targetPlayerIndex, resource |-> stolenResource]>>)
    ELSE Ok(done, <<>>)

applyDiscard(s, a) ==
    LET remaining == s.playersNeedingToDiscard \ {a.playerIndex}
        discarded == [type |-> "resourcesDiscarded", playerIndex |-> a.playerIndex,
                      resources |-> a.resources]
        newState == [s EXCEPT
                       !.players[a.playerIndex].resources = subtractResources(@, a.resources),
                       !.playersNeedingToDiscard = remaining]
    IN IF remaining = {}
       THEN Ok([newState EXCEPT !.phase = "moveRobber"],
               <<discarded, [type |-> "allDiscarded"]>>)
       ELSE Ok(newState, <<discarded>>)

applyTradeBank(s, a) ==
    LET ratio == getTradeRatio(s, a.playerIndex, a.give) IN
    Ok([s EXCEPT !.players[a.playerIndex].resources =
                    [@ EXCEPT ![a.give] = @ - ratio, ![a.receive] = @ + 1]],
       <<[type |-> "bankTraded", playerIndex |-> a.playerIndex, give |-> a.give,
          receive |-> a.receive, ratio |-> ratio]>>)

applyTradeOffer(s, a) ==
    Ok([s EXCEPT !.pendingTrade =
                    <<[fromPlayer |-> a.playerIndex, offering |-> a.offering,
                       requesting |-> a.requesting, responses |-> <<>>]>>],
       <<[type |-> "tradeOffered", playerIndex |-> a.playerIndex,
          offering |-> a.offering, requesting |-> a.requesting]>>)

applyTradeAccept(s, a) ==
    Ok([s EXCEPT !.pendingTrade[1].responses = Put(@, a.playerIndex, "accept")],
       <<[type |-> "tradeAccepted", playerIndex |-> a.playerIndex]>>)

applyTradeReject(s, a) ==
    Ok([s EXCEPT !.pendingTrade[1].responses = Put(@, a.playerIndex, "reject")],
       <<[type |-> "tradeRejected", playerIndex |-> a.playerIndex]>>)

\* tradeConfirm handing the offered bundle over without taking the requested one
applyTradeConfirmOneWay(s, a) ==
    LET trade == Pending(s) IN
    Ok([s EXCEPT
          !.players[a.playerIndex].resources = subtractResources(@, trade.offering),
          !.players[a.targetPlayerIndex].resources = addResources(@, trade.offering),
          !.pendingTrade = <<>>],
       <<[type |-> "tradeConfirmed", playerIndex |-> a.playerIndex,
          targetPlayerIndex |-> a.targetPlayerIndex]>>)

applyTradeConfirm(s, a) ==
    LET trade == Pending(s) IN
    Ok([s EXCEPT
          !.players[a.playerIndex].resources =
              addResources(subtractResources(@, trade.offering), trade.requesting),
          !.players[a.targetPlayerIndex].resources =
              addResources(subtractResources(@, trade.requesting), trade.offering),
          !.pendingTrade = <<>>],
       <<[type |-> "tradeConfirmed", playerIndex |-> a.playerIndex,
          targetPlayerIndex |-> a.targetPlayerIndex]>>)

applyTradeCancel(s, a) ==
    Ok([s EXCEPT !.pendingTrade = <<>>],
       <<[type |-> "tradeCancelled", playerIndex |-> a.playerIndex]>>)

\* applyEndTurn leaving the pending trade in place
applyEndTurnKeepingTrade(s, a) ==
    LET nextPlayer == (s.currentPlayerIndex + 1) % NumPlayers(s) IN
    Ok([s EXCEPT
          !.players[a.playerIndex].developmentCards =
              @ \o s.players[a.playerIndex].newDevCards,
          !.players[a.playerIndex].newDevCards = <<>>,
          !.players[a.playerIndex].hasPlayedDevCardThisTurn = FALSE,
          !.currentPlayerIndex = nextPlayer,
          !.turnNumber = @ + 1,
          !.phase = "preRoll",
          !.lastDiceRoll = <<>>],
       <<[type |-> "turnEnded", playerIndex |-> a.playerIndex, nextPlayer |-> nextPlayer]>>)

applyEndTurn(s, a) ==
    LET nextPlayer == (s.currentPlayerIndex + 1) % NumPlayers(s) IN
    Ok([s EXCEPT
          !.players[a.playerIndex].developmentCards =
              @ \o s.players[a.playerIndex].newDevCards,
          !.players[a.playerIndex].newDevCards = <<>>,
          !.players[a.playerIndex].hasPlayedDevCardThisTurn = FALSE,
          !.currentPlayerIndex = nextPlayer,
          !.turnNumber = @ + 1,
          !.phase = "preRoll",
          !.lastDiceRoll = <<>>,
          !.pendingTrade = <<>>],
       <<[type |-> "turnEnded", playerIndex |-> a.playerIndex, nextPlayer |-> nextPlayer]>>)

\* applySetupSettlement leaving the piece in the seat's supply
applySetupSettlementKeepingPiece(s, a) ==
    Ok([s EXCEPT
          !.players[a.playerIndex].ports = @ \cup PortTypesAt(a.vertexKey),
          !.vertexBuildings = Put(@, a.vertexKey, Building(Settlement, a.playerIndex)),
          !.phase = "setupRoad"],
       <<[type |-> "setupSettlementPlaced", playerIndex |-> a.playerIndex,
          vertexKey |-> a.vertexKey]>>)

applySetupSettlement(s, a) ==
    Ok([s EXCEPT
          !.players[a.playerIndex].settlements = @ - 1,
          !.players[a.playerIndex].ports = @ \cup PortTypesAt(a.vertexKey),
          !.vertexBuildings = Put(@, a.vertexKey, Building(Settlement, a.playerIndex)),
          !.phase = "setupRoad"],
       <<[type |-> "setupSettlementPlaced", playerIndex |-> a.playerIndex,
          vertexKey |-> a.vertexKey]>>)

\* advanceSetup going round the table in both rounds
advanceSetupRoundRobin(s) ==
    LET setupOrder == getSetupOrder(NumPlayers(s))
        nextStep == s.turnNumber + 1
    IN IF nextStep >= Len(setupOrder)
       THEN [s EXCEPT !.phase = "preRoll", !.currentPlayerIndex = 0,
                      !.turnNumber = 0, !.setupRound = 0]
       ELSE [s EXCEPT !.phase = "setupSettlement",
                      !.currentPlayerIndex = nextStep % NumPlayers(s),
                      !.turnNumber = nextStep,
                      !.setupRound = IF nextStep >= NumPlayers(s) THEN 2 ELSE 1]

advanceSetup(s) ==
    LET setupOrder == getSetupOrder(NumPlayers(s))
        nextStep == s.turnNumber + 1
    IN IF nextStep >= Len(setupOrder)
       THEN [s EXCEPT !.phase = "preRoll", !.currentPlayerIndex = 0,
                      !.turnNumber = 0, !.setupRound = 0]
       ELSE [s EXCEPT !.phase = "setupSettlement",
                      !.currentPlayerIndex = setupOrder[nextStep + 1],
                      !.turnNumber = nextStep,
                      !.setupRound = IF nextStep >= NumPlayers(s) THEN 2 ELSE 1]

\* the starting hand granted with the second settlement: one card per adjacent
\* producing hex
StartingResources(settlementVk) ==
    [r \in RESOURCE_TYPES |->
        Cardinality({h \in vertexToHexes[settlementVk] :
                        /\ hexTiles[h].terrain \in DOMAIN TERRAIN_TO_RESOURCE
                        /\ TERRAIN_TO_RESOURCE[hexTiles[h].terrain] = r})]

\* applySetupRoad granting the starting hand in both rounds
applySetupRoadGrantingAlways(s, a) ==
    LET settlementVk == findLastPlacedSettlement(s, a.playerIndex)
        placed == [s EXCEPT !.players[a.playerIndex].roads = @ - 1,
                            !.edgeRoads = Put(@, a.edgeKey, [playerIndex |-> a.playerIndex])]
        granted == IF settlementVk \in DOMAIN vertexToHexes
                   THEN [placed EXCEPT !.players[a.playerIndex].resources =
                                          addResources(@, StartingResources(settlementVk))]
                   ELSE placed
    IN Ok(advanceSetup(granted),
          <<[type |-> "setupRoadPlaced", playerIndex |-> a.playerIndex,
             edgeKey |-> a.edgeKey]>>)

applySetupRoad(s, a) ==
    LET settlementVk == findLastPlacedSettlement(s, a.playerIndex)
        placed == [s EXCEPT !.players[a.playerIndex].roads = @ - 1,
                            !.edgeRoads = Put(@, a.edgeKey, [playerIndex |-> a.playerIndex])]
        granted == IF s.setupRound = 2 /\ settlementVk \in DOMAIN vertexToHexes
                   THEN [placed EXCEPT !.players[a.playerIndex].resources =
                                          addResources(@, StartingResources(settlementVk))]
                   ELSE placed
    IN Ok(advanceSetup(granted),
          <<[type |-> "setupRoadPlaced", playerIndex |-> a.playerIndex,
             edgeKey |-> a.edgeKey]>>)

(***************************************************************************)
(* actions.ts: the dispatcher                                              *)
(***************************************************************************)
ActionTypes ==
    {"buildSettlement", "buildRoad", "buildCity", "rollDice", "buyDevCard",
     "playKnight", "playRoadBuilding", "playYearOfPlenty", "playMonopoly",
     "moveRobber", "stealResource", "discardResources", "tradeBank", "tradeOffer",
     "tradeAccept", "tradeReject", "tradeConfirm", "tradeCancel", "endTurn",
     "setupPlaceSettlement", "setupPlaceRoad"}

\* the validators' switch
validateByType(s, a) ==
    CASE a.type = "buildSettlement"      -> validateBuildSettlement(s, a)
      [] a.type = "buildRoad"            -> validateBuildRoad(s, a)
      [] a.type = "buildCity"            -> validateBuildCity(s, a)
      [] a.type = "rollDice"             -> validateRollDice(s, a)
      [] a.type = "buyDevCard"           -> validateBuyDevCard(s, a)
      [] a.type = "playKnight"           -> validateKnight(s, a)
      [] a.type = "playRoadBuilding"     -> validateRoadBuilding(s, a)
      [] a.type = "playYearOfPlenty"     -> validateYearOfPlenty(s, a)
      [] a.type = "playMonopoly"         -> validateMonopoly(s, a)
      [] a.type = "moveRobber"           -> validateMoveRobber(s, a)
      [] a.type = "stealResource"        -> validateStealResource(s, a)
      [] a.type = "discardResources"     -> validateDiscard(s, a)
      [] a.type = "tradeBank"            -> validateTradeBank(s, a)
      [] a.type = "tradeOffer"           -> validateTradeOffer(s, a)
      [] a.type = "tradeAccept"          -> validateTradeAccept(s, a)
      [] a.type = "tradeReject"          -> validateTradeReject(s, a)
      [] a.type = "tradeConfirm"         -> validateTradeConfirm(s, a)
      [] a.type = "tradeCancel"          -> validateTradeCancel(s, a)
      [] a.type = "endTurn"              -> validateEndTurn(s, a)
      [] a.type = "setupPlaceSettlement" -> validateSetupSettlement(s, a)
      [] a.type = "setupPlaceRoad"       -> validateSetupRoad(s, a)
      [] OTHER                           -> "Unknown action type"

\* validateAction without its first test, the one for a finished game
validateAfterGameOver(s, a) == validateByType(s, a)

validateAction(s, a) ==
    IF s.phase = "gameOver" THEN "Game is over" ELSE validateByType(s, a)

\* the appliers' switch; rnd.dice and rnd.stolenResource are what the two
\* clock-seeded generators (rollDice, stealResource) yield for this call
applyValidated(s, a, rnd) ==
    CASE a.type = "buildSettlement"      -> applyBuildSettlement(s, a)
      [] a.type = "buildRoad"            -> applyBuildRoad(s, a)
      [] a.type = "buildCity"            -> applyBuildCity(s, a)
      [] a.type = "rollDice"             -> applyRollDice(s, a, rnd.dice)
      [] a.type = "buyDevCard"           -> applyBuyDevCard(s, a)
      [] a.type = "playKnight"           -> applyKnight(s, a)
      [] a.type = "playRoadBuilding"     -> applyRoadBuilding(s, a)
      [] a.type = "playYearOfPlenty"     -> applyYearOfPlenty(s, a)
      [] a.type = "playMonopoly"         -> applyMonopoly(s, a)
      [] a.type = "moveRobber"           -> applyMoveRobber(s, a)
      [] a.type = "stealResource"        -> applyStealResource(s, a, rnd.stolenResource)
      [] a.type = "discardResources"     -> applyDiscard(s, a)
      [] a.type = "tradeBank"            -> applyTradeBank(s, a)
      [] a.type = "tradeOffer"           -> applyTradeOffer(s, a)
      [] a.type = "tradeAccept"          -> applyTradeAccept(s, a)
      [] a.type = "tradeReject"          -> applyTradeReject(s, a)
      [] a.type = "tradeConfirm"         -> applyTradeConfirm(s, a)
      [] a.type = "tradeCancel"          -> applyTradeCancel(s, a)
      [] a.type = "endTurn"              -> applyEndTurn(s, a)
      [] a.type = "setupPlaceSettlement" -> applySetupSettlement(s, a)
      [] a.type = "setupPlaceRoad"       -> applySetupRoad(s, a)
      [] OTHER                           -> Rejected(s, "Unknown action type")

\* applyAction as it would be if it trusted its caller to have validated
applyUnchecked(s, a, rnd, error) == applyValidated(s, a, rnd)

\* reject with the validator's error, or apply
applyChecked(s, a, rnd, error) ==
    IF error # NoError THEN Rejected(s, error)
    ELSE applyValidated(s, a, rnd)

applyAction(s, a, rnd) == applyChecked(s, a, rnd, validateAction(s, a))

(***************************************************************************)
(* actions.ts: the location helpers and getLegalActions                    *)
(***************************************************************************)
getValidSettlementLocations(s, playerIndex) ==
    LET isSetup == s.phase = "setupSettlement" IN
    { vk \in Vertices :
        /\ ~HasBuilding(s, vk)
        /\ ~\E av \in vertexToVertices[vk] : HasBuilding(s, av)
        /\ isSetup \/ \E ek \in vertexToEdges[vk] :
                          HasRoad(s, ek) /\ s.edgeRoads[ek].playerIndex = playerIndex }

getValidRoadLocations(s, playerIndex) ==
    { ek \in Edges :
        /\ ~HasRoad(s, ek)
        /\ ek \in DOMAIN edgeToVertices
        /\ LET ends == Range(edgeToVertices[ek]) IN
           \/ \E vk \in ends :
                  HasBuilding(s, vk) /\ s.vertexBuildings[vk].playerIndex = playerIndex
           \/ \E vk \in ends :
                  /\ ~(HasBuilding(s, vk) /\ s.vertexBuildings[vk].playerIndex # playerIndex)
                  /\ \E aek \in vertexToEdges[vk] :
                         aek # ek /\ HasRoad(s, aek)
                                  /\ s.edgeRoads[aek].playerIndex = playerIndex }

getValidCityLocations(s, playerIndex) ==
    { vk \in DOMAIN s.vertexBuildings :
        /\ s.vertexBuildings[vk].playerIndex = playerIndex
        /\ s.vertexBuildings[vk].type = Settlement }

getValidRobberLocations(s) == { hk \in Hexes : hk # s.robberHex }

\* the list of getLegalActions as a set: its callers but the bot's fallback
\* look at membership only
getLegalActions(s, playerIndex) ==
    LET player == s.players[playerIndex]
        none == {}
        buildSettlements ==
            IF player.settlements > 0 /\ hasResources(player.resources, SETTLEMENT_COST)
            THEN { [type |-> "buildSettlement", playerIndex |-> playerIndex, vertexKey |-> vk] :
                       vk \in getValidSettlementLocations(s, playerIndex) }
            ELSE none
        buildRoads ==
            IF player.roads > 0 /\ hasResources(player.resources, ROAD_COST)
            THEN { [type |-> "buildRoad", playerIndex |-> playerIndex, edgeKey |-> ek] :
                       ek \in getValidRoadLocations(s, playerIndex) }
            ELSE none
        buildCities ==
            IF player.cities > 0 /\ hasResources(player.resources, CITY_COST)
            THEN { [type |-> "buildCity", playerIndex |-> playerIndex, vertexKey |-> vk] :
                       vk \in getValidCityLocations(s, playerIndex) }
            ELSE none
        buyCard ==
            IF hasResources(player.resources, DEV_CARD_COST) /\ Len(s.devCardDeck) > 0
            THEN { [type |-> "buyDevCard", playerIndex |-> playerIndex] } ELSE none
        held == Range(player.developmentCards)
        playCards ==
            IF player.hasPlayedDevCardThisTurn THEN none
            ELSE (IF "knight" \in held THEN { [type |-> "playKnight", playerIndex |-> playerIndex] } ELSE none)
                 \cup (IF "roadBuilding" \in held /\ player.roads > 0
                       THEN { [type |-> "playRoadBuilding", playerIndex |-> playerIndex] } ELSE none)
                 \cup (IF "yearOfPlenty" \in held
                       THEN { [type |-> "playYearOfPlenty", playerIndex |-> playerIndex,
                               resource1 |-> r1, resource2 |-> r2] :
                                  r1 \in RESOURCE_TYPES, r2 \in RESOURCE_TYPES }
                       ELSE none)
                 \cup (IF "monopoly" \in held
                       THEN { [type |-> "playMonopoly", playerIndex |-> playerIndex,
                               resource |-> r] : r \in RESOURCE_TYPES }
                       ELSE none)
        bankTrades ==
            IF s.pendingTrade # <<>> THEN none
            ELSE UNION { IF player.resources[give] >= getTradeRatio(s, playerIndex, give)
                         THEN { [type |-> "tradeBank", playerIndex |-> playerIndex,
                                 give |-> give, receive |-> receive] :
                                    receive \in RESOURCE_TYPES \ {give} }
                         ELSE none : give \in RESOURCE_TYPES }
    IN
    IF s.phase = "gameOver" THEN none
    ELSE IF s.phase = "discard"
    THEN IF playerIndex \in s.playersNeedingToDiscard
         THEN { [type |-> "discardResources", playerIndex |-> playerIndex,
                 resources |-> Bundle(0, 0, 0, 0, 0)] }
         ELSE none
    ELSE IF s.phase = "main" /\ s.pendingTrade # <<>>
    THEN IF playerIndex # Pending(s).fromPlayer
            /\ playerIndex \notin DOMAIN Pending(s).responses
         THEN (IF validateTradeAccept(s, [type |-> "tradeAccept", playerIndex |-> playerIndex]) = NoError
               THEN { [type |-> "tradeAccept", playerIndex |-> playerIndex] } ELSE none)
              \cup { [type |-> "tradeReject", playerIndex |-> playerIndex] }
         ELSE none
    ELSE IF playerIndex # s.currentPlayerIndex THEN none
    ELSE CASE s.phase = "setupSettlement" ->
                  { [type |-> "setupPlaceSettlement", playerIndex |-> playerIndex,
                     vertexKey |-> vk] : vk \in getValidSettlementLocations(s, playerIndex) }
           [] s.phase = "setupRoad" ->
                  { a \in { [type |-> "setupPlaceRoad", playerIndex |-> playerIndex,
                             edgeKey |-> ek] : ek \in Edges } :
                        validateSetupRoad(s, a) = NoError }
           [] s.phase = "preRoll" ->
                  { [type |-> "rollDice", playerIndex |-> playerIndex] }
                  \cup (IF ~player.hasPlayedDevCardThisTurn /\ "knight" \in held
                        THEN { [type |-> "playKnight", playerIndex |-> playerIndex] } ELSE none)
           [] s.phase = "moveRobber" ->
                  { [type |-> "moveRobber", playerIndex |-> playerIndex, hex |-> hk] :
                        hk \in getValidRobberLocations(s) }
           [] s.phase = "stealResource" ->
                  { [type |-> "stealResource", playerIndex |-> playerIndex,
                     targetPlayerIndex |-> target] : target \in s.robberStealTargets }
           [] s.phase = "roadBuilding" ->
                  { a \in { [type |-> "buildRoad", playerIndex |-> playerIndex,
                             edgeKey |-> ek] : ek \in Edges } :
                        validateBuildRoad(s, a) = NoError }
           [] s.phase = "main" ->
                  buildSettlements \cup buildRoads \cup buildCities \cup buyCard
                  \cup playCards \cup bankTrades \cup { [type |-> "endTurn", playerIndex |-> playerIndex] }
           [] OTHER -> none

\* the outcomes the generators can yield for action a in state s
DiceInputs == { <<1, 1>>, <<2, 2>>, <<3, 4>>, <<5, 6>>, <<6, 6>> }

RandomOutcomes(s, a) ==
    IF a.type = "rollDice"
    THEN {[dice |-> d, stolenResource |-> "wood"] : d \in DiceInputs}
    ELSE IF a.type = "stealResource" /\ a.targetPlayerIndex \in Seats(s)
              /\ availableResources(s, a.targetPlayerIndex) # {}
    THEN {[dice |-> <<1, 1>>, stolenResource |-> r] :
             r \in availableResources(s, a.targetPlayerIndex)}
    ELSE {[dice |-> <<1, 1>>, stolenResource |-> "wood"]}

(***************************************************************************)
(* Inputs: the payloads a client can put in an action.  The socket handler *)
(* checks only that action.playerIndex is the sender's seat.               *)
(***************************************************************************)
\* the corners the recorded game builds on (seat 0: VA..VD, seat 1: VX, VY)
VA == <<0, 0, "N">>
VB == <<0, 1, "N">>
VC == <<-1, 2, "N">>
VD == <<-1, 1, "N">>
VX == <<2, -1, "S">>
VY == <<2, -2, "S">>
FarHex == <<-2, 0>>

OffBoardVertex == <<5, 5, "N">>
OffBoardEdge == <<5, 5, "NE">>
OffBoardHex == <<5, 5>>

VertexInputs == { VA, VB, VC, VD, VX, VY, <<1, -1, "S">>, OffBoardVertex }

EdgeInputs ==
    { <<0, 0, "NE">>, <<0, 0, "E">>, <<0, 0, "SE">>, <<-1, 1, "E">>, <<-1, 1, "NE">>,
      <<0, -1, "SE">>, <<1, -1, "SE">>, <<1, 0, "NE">>, <<1, -1, "NE">>, <<0, -2, "E">>,
      <<0, 1, "NE">>, <<-1, 3, "NE">>, OffBoardEdge }

HexInputs == { <<0, -2>>, <<0, 0>>, <<2, -1>>, OffBoardHex }

ResourceInputs == {"wood", "wheat", "ore"}

\* bundles a client can offer, request or discard; the last two carry a
\* negative count, which nothing on the way to the validators excludes
BundleInputs ==
    { Bundle(0, 0, 0, 0, 0), Bundle(1, 0, 0, 0, 0), Bundle(0, 0, 0, 1, 0),
      Bundle(0, -1, 2, 0, 0), Bundle(1, 0, 0, 0, -1) }

\* a discard of exactly half the hand, taken kind by kind in the given order;
\* the last bundle below names one wood more and one brick less than such a
\* discard, which keeps the total and can make the brick count negative
RECURSIVE TakeFrom(_, _, _)
TakeFrom(hand, order, n) ==
    IF order = <<>> THEN EMPTY_RESOURCES
    ELSE LET r == Head(order)
             k == IF hand[r] < 0 THEN 0 ELSE Min(hand[r], n)
         IN [TakeFrom(hand, Tail(order), n - k) EXCEPT ![r] = k]

DiscardInputs(s, playerIndex) ==
    LET hand == s.players[playerIndex].resources
        half == totalResources(hand) \div 2
    IN { TakeFrom(hand, <<"wood", "brick", "sheep", "wheat", "ore">>, half),
         TakeFrom(hand, <<"ore", "wheat", "sheep", "brick", "wood">>, half),
         Bundle(0, 0, 0, 0, 0),
         [TakeFrom(hand, <<"ore", "wheat", "sheep", "brick", "wood">>, half)
            EXCEPT !.wood = @ + 1, !.brick = @ - 1] }

Act(t, p) == [type |-> t, playerIndex |-> p]

\* the action records of type t the bounded clients can submit in state s
InputsOf(s, t) ==
    LET P == Seats(s) IN
    CASE t \in {"rollDice", "buyDevCard", "playKnight", "playRoadBuilding",
                "tradeAccept", "tradeReject", "tradeCancel", "endTurn"} ->
            {Act(t, p) : p \in P}
      [] t \in {"setupPlaceSettlement", "buildSettlement", "buildCity"} ->
            {[type |-> t, playerIndex |-> p, vertexKey |-> v] : p \in P, v \in VertexInputs}
      [] t \in {"setupPlaceRoad", "buildRoad"} ->
            {[type |-> t, playerIndex |-> p, edgeKey |-> e] : p \in P, e \in EdgeInputs}
      [] t = "moveRobber" ->
            {[type |-> t, playerIndex |-> p, hex |-> h] : p \in P, h \in HexInputs}
      [] t \in {"stealResource", "tradeConfirm"} ->
            {[type |-> t, playerIndex |-> p, targetPlayerIndex |-> q] : p \in P, q \in P}
      [] t = "discardResources" ->
            {[type |-> t, playerIndex |-> p, resources |-> b] :
                p \in P, b \in UNION {DiscardInputs(s, q) : q \in P}}
      [] t = "playYearOfPlenty" ->
            {[type |-> t, playerIndex |-> p, resource1 |-> r1, resource2 |-> r2] :
                p \in P, r1 \in ResourceInputs, r2 \in ResourceInputs}
      [] t = "playMonopoly" ->
            {[type |-> t, playerIndex |-> p, resource |-> r] : p \in P, r \in ResourceInputs}
      [] t = "tradeBank" ->
            {[type |-> t, playerIndex |-> p, give |-> g, receive |-> r] :
                p \in P, g \in ResourceInputs, r \in ResourceInputs}
      [] t = "tradeOffer" ->
            {[type |-> t, playerIndex |-> p, offering |-> o, requesting |-> q] :
                p \in P, o \in BundleInputs, q \in BundleInputs}
      [] OTHER -> {}

\* every action record the bounded clients can submit in state s
ActionInputs(s) == UNION {InputsOf(s, t) : t \in ActionTypes}

(***************************************************************************)
(* bot-player.ts, bot-strategy.ts: when a bot seat acts and what it        *)
(* submits.  A choice is the set of actions the strategy can return: where *)
(* the code keeps the first best-scoring candidate of a list, every        *)
(* best-scoring candidate is in the set; the empty set stands for null.    *)
(***************************************************************************)
shouldAct(s, playerIndex) ==
    IF s.phase = "gameOver" THEN FALSE
    ELSE IF s.phase = "discard" THEN playerIndex \in s.playersNeedingToDiscard
    ELSE IF /\ s.phase = "main"
            /\ s.pendingTrade # <<>>
            /\ Pending(s).fromPlayer # playerIndex
            /\ playerIndex \notin DOMAIN Pending(s).responses
         THEN TRUE
    ELSE s.currentPlayerIndex = playerIndex

RESOURCE_ORDER == <<"wood", "brick", "sheep", "wheat", "ore">>

pips(numberToken) == 6 - Abs(7 - numberToken)

\* the candidates of S with the greatest score
Best(S, score(_)) == { x \in S : \A y \in S : score(y) <= score(x) }

\* scoreVertex (the pips around a corner), and scoreSettlementVertex with
\* vertexResourceDiversity and isAdjacentToPort
scoreVertex(s, vk) ==
    SumOver(vertexToHexes[vk],
            [h \in vertexToHexes[vk] |->
                IF hexTiles[h].numberToken # 0 THEN pips(hexTiles[h].numberToken) ELSE 0])

scoreSettlementVertex(s, vk) ==
    LET diversity == Cardinality({ TERRAIN_TO_RESOURCE[hexTiles[h].terrain] :
                                     h \in { g \in vertexToHexes[vk] :
                                               hexTiles[g].terrain \in DOMAIN TERRAIN_TO_RESOURCE } })
        port == \E p \in ports : vk \in p.vertices
    IN scoreVertex(s, vk) * 3 + diversity * 2 + (IF port THEN 3 ELSE 0)

scoreRobberHex(s, hex, playerIndex) ==
    LET built == { vk \in Range(hexToVertices[hex]) : HasBuilding(s, vk) }
        own == { vk \in built : s.vertexBuildings[vk].playerIndex = playerIndex }
        opponentBuildingCount ==
            SumOver(built \ own,
                    [vk \in built \ own |-> IF s.vertexBuildings[vk].type = City THEN 2 ELSE 1])
        pipValue == IF hexTiles[hex].numberToken # 0 THEN pips(hexTiles[hex].numberToken) ELSE 0
    IN IF own # {} THEN -100 ELSE opponentBuildingCount * 5 + pipValue

\* the first resource, in RESOURCE_TYPES order, with the greatest deficit
\* against the goal; "" (null) when the goal is covered
getMostNeededResource(resources, goal) ==
    LET deficit == [r \in RESOURCE_TYPES |-> goal[r] - resources[r]]
        short == { i \in 1..Len(RESOURCE_ORDER) :
                     /\ deficit[RESOURCE_ORDER[i]] > 0
                     /\ \A j \in 1..Len(RESOURCE_ORDER) :
                            deficit[RESOURCE_ORDER[j]] <= deficit[RESOURCE_ORDER[i]] }
    IN IF short = {} THEN ""
       ELSE RESOURCE_ORDER[CHOOSE i \in short : \A j \in short : i <= j]

\* the score of a road by the best corner it leads to; -1 when it leads to none
roadScore(s, ek, openOnly) ==
    LET ends == { vk \in Range(edgeToVertices[ek]) :
                    /\ ~HasBuilding(s, vk)
                    /\ openOnly => ~\E av \in vertexToVertices[vk] : HasBuilding(s, av) }
    IN IF ends = {} THEN -1
       ELSE CHOOSE n \in { scoreSettlementVertex(s, vk) : vk \in ends } :
                \A vk \in ends : scoreSettlementVertex(s, vk) <= n

\* mustDiscard <= 0 hands over to fallback, which hands back for a listed
\* seat and answers null for any other: no action either way
chooseDiscard(s, playerIndex) ==
    LET player == s.players[playerIndex]
        mustDiscard == totalResources(player.resources) \div 2
    IN IF mustDiscard <= 0 THEN {}
       ELSE { [type |-> "discardResources", playerIndex |-> playerIndex,
               resources |-> TakeFrom(player.resources, RESOURCE_ORDER, mustDiscard)] }

\* the first legal action, whichever it is
fallback(s, playerIndex) ==
    IF getLegalActions(s, playerIndex) = {} THEN {}
    ELSE IF s.phase = "discard" THEN chooseDiscard(s, playerIndex)
    ELSE getLegalActions(s, playerIndex)

shouldAcceptTrade(s, playerIndex) ==
    LET player == s.players[playerIndex]
        receiving == Pending(s).offering
        giving == Pending(s).requesting
        goals == <<CITY_COST, SETTLEMENT_COST, DEV_CARD_COST, ROAD_COST>>
        needScore(r) ==
            LET unmet == { i \in 1..Len(goals) : goals[i][r] > player.resources[r] } IN
            IF unmet = {} THEN 0
            ELSE goals[CHOOSE i \in unmet : \A j \in unmet : i <= j][r] - player.resources[r]
        receiveValue == SumOver(RESOURCE_TYPES,
                                [r \in RESOURCE_TYPES |-> receiving[r] * (1 + needScore(r))])
        giveValue == SumOver(RESOURCE_TYPES,
                             [r \in RESOURCE_TYPES |-> giving[r] * (1 + needScore(r))])
    IN /\ hasResources(player.resources, giving)
       /\ 10 * receiveValue >= 6 * giveValue

chooseDevCardPlay(s, playerIndex) ==
    LET player == s.players[playerIndex]
        held == Range(player.developmentCards)
        needed == getMostNeededResource(player.resources, CITY_COST)
        needed1 == IF needed # "" THEN needed
                   ELSE getMostNeededResource(player.resources, SETTLEMENT_COST)
        opponentTotal(r) ==
            SumOver(Seats(s) \ {playerIndex},
                    [i \in Seats(s) \ {playerIndex} |-> s.players[i].resources[r]])
        richest == { i \in 1..Len(RESOURCE_ORDER) :
                       /\ opponentTotal(RESOURCE_ORDER[i]) > 0
                       /\ \A j \in 1..Len(RESOURCE_ORDER) :
                              opponentTotal(RESOURCE_ORDER[j]) <= opponentTotal(RESOURCE_ORDER[i]) }
    IN IF "knight" \in held THEN { [type |-> "playKnight", playerIndex |-> playerIndex] }
       ELSE IF /\ "roadBuilding" \in held /\ player.roads > 0
               /\ getValidRoadLocations(s, playerIndex) # {}
            THEN { [type |-> "playRoadBuilding", playerIndex |-> playerIndex] }
       ELSE IF "yearOfPlenty" \in held
            THEN { [type |-> "playYearOfPlenty", playerIndex |-> playerIndex,
                    resource1 |-> IF needed1 # "" THEN needed1 ELSE "wheat",
                    resource2 |-> "ore"] }
       ELSE IF "monopoly" \in held /\ richest # {}
            THEN { [type |-> "playMonopoly", playerIndex |-> playerIndex,
                    resource |-> RESOURCE_ORDER[CHOOSE i \in richest :
                                                    \A j \in richest : i <= j]] }
       ELSE {}

chooseBankTrade(s, playerIndex) ==
    LET player == s.players[playerIndex]
        goals == <<CITY_COST, SETTLEMENT_COST, DEV_CARD_COST, ROAD_COST>>
        neededFor(g) == getMostNeededResource(player.resources, goals[g])
        spare(g) ==
            { i \in 1..Len(RESOURCE_ORDER) :
                LET giveRes == RESOURCE_ORDER[i]
                    ratio == getTradeRatio(s, playerIndex, giveRes)
                IN /\ giveRes # neededFor(g)
                   /\ player.resources[giveRes] >= ratio
                   /\ player.resources[giveRes] - ratio >= goals[g][giveRes] }
        tradable == { g \in 1..Len(goals) : neededFor(g) # "" /\ spare(g) # {} }
    IN IF tradable = {} THEN {}
       ELSE LET g == CHOOSE x \in tradable : \A y \in tradable : x <= y
                i == CHOOSE x \in spare(g) : \A y \in spare(g) : x <= y
            IN { [type |-> "tradeBank", playerIndex |-> playerIndex,
                  give |-> RESOURCE_ORDER[i], receive |-> neededFor(g)] }

chooseMainAction(s, playerIndex) ==
    LET player == s.players[playerIndex]
        cityLocations == getValidCityLocations(s, playerIndex)
        settlementLocations == getValidSettlementLocations(s, playerIndex)
        roadLocations == getValidRoadLocations(s, playerIndex)
        vertexScore(vk) == scoreVertex(s, vk)
        settlementScore(vk) == scoreSettlementVertex(s, vk)
        leadsTo(ek) == roadScore(s, ek, TRUE)
    IN
    IF s.pendingTrade # <<>> /\ Pending(s).fromPlayer # playerIndex
    THEN IF playerIndex \notin DOMAIN Pending(s).responses
         THEN IF shouldAcceptTrade(s, playerIndex)
              THEN { [type |-> "tradeAccept", playerIndex |-> playerIndex] }
              ELSE { [type |-> "tradeReject", playerIndex |-> playerIndex] }
         ELSE {}
    ELSE IF s.pendingTrade # <<>> /\ Pending(s).fromPlayer = playerIndex
    THEN { [type |-> "tradeCancel", playerIndex |-> playerIndex] }
    ELSE IF hasResources(player.resources, CITY_COST) /\ cityLocations # {}
    THEN { [type |-> "buildCity", playerIndex |-> playerIndex, vertexKey |-> vk] :
               vk \in Best(cityLocations, vertexScore) }
    ELSE IF /\ player.settlements > 0
            /\ hasResources(player.resources, SETTLEMENT_COST)
            /\ settlementLocations # {}
    THEN { [type |-> "buildSettlement", playerIndex |-> playerIndex, vertexKey |-> vk] :
               vk \in Best(settlementLocations, settlementScore) }
    ELSE IF /\ player.roads > 0
            /\ hasResources(player.resources, ROAD_COST)
            /\ roadLocations # {}
    THEN { [type |-> "buildRoad", playerIndex |-> playerIndex, edgeKey |-> ek] :
               ek \in Best(roadLocations, leadsTo) }
    ELSE IF hasResources(player.resources, DEV_CARD_COST) /\ Len(s.devCardDeck) > 0
    THEN { [type |-> "buyDevCard", playerIndex |-> playerIndex] }
    ELSE IF ~player.hasPlayedDevCardThisTurn /\ chooseDevCardPlay(s, playerIndex) # {}
    THEN chooseDevCardPlay(s, playerIndex)
    ELSE IF chooseBankTrade(s, playerIndex) # {}
    THEN chooseBankTrade(s, playerIndex)
    ELSE { [type |-> "endTurn", playerIndex |-> playerIndex] }

\* BasicBotStrategy.chooseAction with the choosers of the other phases
chooseAction(s, playerIndex) ==
    LET player == s.players[playerIndex]
        settlementScore(vk) == scoreSettlementVertex(s, vk)
        robberScore(hk) == scoreRobberHex(s, hk, playerIndex)
        roadActions(t) == { a \in getLegalActions(s, playerIndex) : a.type = t }
        leadsTo(a) == roadScore(s, a.edgeKey, FALSE)
        robberOnOwnHex ==
            \E vk \in Range(hexToVertices[s.robberHex]) :
                HasBuilding(s, vk) /\ s.vertexBuildings[vk].playerIndex = playerIndex
        victim(t) == <<calculateVictoryPoints(s, t), totalResources(s.players[t].resources)>>
        beats(a, b) == a[1] > b[1] \/ (a[1] = b[1] /\ a[2] > b[2])
    IN
    CASE s.phase = "setupSettlement" ->
             IF getValidSettlementLocations(s, playerIndex) = {} THEN fallback(s, playerIndex)
             ELSE { [type |-> "setupPlaceSettlement", playerIndex |-> playerIndex,
                     vertexKey |-> vk] :
                        vk \in Best(getValidSettlementLocations(s, playerIndex), settlementScore) }
      [] s.phase = "setupRoad" ->
             IF roadActions("setupPlaceRoad") = {} THEN fallback(s, playerIndex)
             ELSE Best(roadActions("setupPlaceRoad"), leadsTo)
      [] s.phase = "preRoll" ->
             IF /\ ~player.hasPlayedDevCardThisTurn
                /\ "knight" \in Range(player.developmentCards)
                /\ robberOnOwnHex
             THEN { [type |-> "playKnight", playerIndex |-> playerIndex] }
             ELSE { [type |-> "rollDice", playerIndex |-> playerIndex] }
      [] s.phase = "discard" -> chooseDiscard(s, playerIndex)
      [] s.phase = "moveRobber" ->
             IF getValidRobberLocations(s) = {} THEN fallback(s, playerIndex)
             ELSE { [type |-> "moveRobber", playerIndex |-> playerIndex, hex |-> hk] :
                        hk \in Best(getValidRobberLocations(s), robberScore) }
      [] s.phase = "stealResource" ->
             IF s.robberStealTargets = {} THEN fallback(s, playerIndex)
             ELSE { [type |-> "stealResource", playerIndex |-> playerIndex,
                     targetPlayerIndex |-> t] :
                        t \in { x \in s.robberStealTargets :
                                  \A y \in s.robberStealTargets : ~beats(victim(y), victim(x)) } }
      [] s.phase = "main" -> chooseMainAction(s, playerIndex)
      [] s.phase = "roadBuilding" ->
             IF roadActions("buildRoad") = {} THEN fallback(s, playerIndex)
             ELSE Best(roadActions("buildRoad"), leadsTo)
      [] s.phase = "gameOver" -> {}
      [] OTHER -> fallback(s, playerIndex)

(***************************************************************************)
(* game-room.ts: processAction.  A rejected action changes nothing and is  *)
(* not broadcast (a stuttering step); an accepted one replaces gameState   *)
(* and is broadcast with its events.                                       *)
(***************************************************************************)
NoUpdate == [action |-> Act("none", NoPlayer), events |-> <<>>]

NothingPlayed == [k \in DEV_CARD_KINDS |-> 0]

\* the card kind a play-card action takes from the hand
PlayedKind(a) ==
    CASE a.type = "playKnight"       -> "knight"
      [] a.type = "playRoadBuilding" -> "roadBuilding"
      [] a.type = "playYearOfPlenty" -> "yearOfPlenty"
      [] a.type = "playMonopoly"     -> "monopoly"
      [] OTHER                       -> "none"

CountPlayed(p, a) ==
    IF PlayedKind(a) \in DOMAIN p THEN [p EXCEPT ![PlayedKind(a)] = @ + 1] ELSE p

\* the development cards of seat i, usable or bought this turn, per kind
HeldKinds(s, i) ==
    [k \in DEV_CARD_KINDS |->
        CountIn(s.players[i].developmentCards, k) + CountIn(s.players[i].newDevCards, k)]

\* the history of a turn: whether its dice were rolled, how many play-card
\* actions were accepted, what last sent the robber on its way (a 7, a knight
\* before or after the roll), and the cards its player held when it began
\* that it has not played since
NewTurn(s) ==
    [rolled |-> FALSE, plays |-> 0, robber |-> "none",
     held |-> HeldKinds(s, s.currentPlayerIndex)]

\* the history after the accepted action a has led to state s
TurnAfter(t, a, s) ==
    CASE a.type = "endTurn"  -> NewTurn(s)
      [] a.type = "rollDice" ->
            [t EXCEPT !.rolled = TRUE,
                      !.robber = IF s.lastDiceRoll[1] + s.lastDiceRoll[2] = 7
                                 THEN "seven" ELSE @]
      [] a.type = "playKnight" ->
            [t EXCEPT !.plays = @ + 1,
                      !.held[PlayedKind(a)] = @ - 1,
                      !.robber = IF t.rolled THEN "knight" ELSE "knightBeforeRoll"]
      [] a.type \in {"playRoadBuilding", "playYearOfPlenty", "playMonopoly"} ->
            [t EXCEPT !.plays = @ + 1, !.held[PlayedKind(a)] = @ - 1]
      [] OTHER -> t

\* a valid result replaces the room's state and is broadcast
\* the room takes over the result of an accepted action
advance(a, result) ==
    /\ result.valid
    /\ state' = result.state
    /\ update' = [action |-> a, events |-> result.events]
    /\ played' = CountPlayed(played, a)
    /\ turn' = TurnAfter(turn, a, result.state)
    /\ budget' = budget - 1

\* a room without bot seats: no controller is attached to it
NoController ==
    [running |-> FALSE, bots |-> <<>>, waiting |-> 0, seen |-> <<>>, safety |-> 0]

accept(a, result) ==
    /\ advance(a, result)
    /\ UNCHANGED controller

processAction(a) ==
    /\ budget > 0
    /\ \E rnd \in RandomOutcomes(state, a) : accept(a, applyAction(state, a, rnd))

SetupPlaceSettlement == \E a \in InputsOf(state, "setupPlaceSettlement") : processAction(a)
SetupPlaceRoad == \E a \in InputsOf(state, "setupPlaceRoad") : processAction(a)
RollDice == \E a \in InputsOf(state, "rollDice") : processAction(a)
BuildSettlement == \E a \in InputsOf(state, "buildSettlement") : processAction(a)
BuildRoad == \E a \in InputsOf(state, "buildRoad") : processAction(a)
BuildCity == \E a \in InputsOf(state, "buildCity") : processAction(a)
BuyDevCard == \E a \in InputsOf(state, "buyDevCard") : processAction(a)
PlayKnight == \E a \in InputsOf(state, "playKnight") : processAction(a)
PlayRoadBuilding == \E a \in InputsOf(state, "playRoadBuilding") : processAction(a)
PlayYearOfPlenty == \E a \in InputsOf(state, "playYearOfPlenty") : processAction(a)
PlayMonopoly == \E a \in InputsOf(state, "playMonopoly") : processAction(a)
MoveRobber == \E a \in InputsOf(state, "moveRobber") : processAction(a)
StealResource == \E a \in InputsOf(state, "stealResource") : processAction(a)
DiscardResources == \E a \in InputsOf(state, "discardResources") : processAction(a)
TradeBank == \E a \in InputsOf(state, "tradeBank") : processAction(a)
TradeOffer == \E a \in InputsOf(state, "tradeOffer") : processAction(a)
TradeAccept == \E a \in InputsOf(state, "tradeAccept") : processAction(a)
TradeReject == \E a \in InputsOf(state, "tradeReject") : processAction(a)
TradeConfirm == \E a \in InputsOf(state, "tradeConfirm") : processAction(a)
TradeCancel == \E a \in InputsOf(state, "tradeCancel") : processAction(a)
EndTurn == \E a \in InputsOf(state, "endTurn") : processAction(a)

(***************************************************************************)
(* A recorded two-player game on this board, replayed through applyAction. *)
(* The positions it passes through are the positions exploration starts    *)
(* from, next to the new game itself.                                      *)
(***************************************************************************)
NoRandom == [dice |-> <<1, 1>>, stolenResource |-> "wood"]

Do(a) == [action |-> a, rnd |-> NoRandom]
Settle(p, v) == Do([type |-> "setupPlaceSettlement", playerIndex |-> p, vertexKey |-> v])
Pave(p, e) == Do([type |-> "setupPlaceRoad", playerIndex |-> p, edgeKey |-> e])
Roll(p, d) == [action |-> Act("rollDice", p), rnd |-> [dice |-> d, stolenResource |-> "wood"]]
End(p) == Do(Act("endTurn", p))
Pass(p, d) == <<Roll(p, d), End(p)>>
Turn(p, d, acts) == <<Roll(p, d)>> \o acts \o <<End(p)>>
Upgrade(p, v) == Do([type |-> "buildCity", playerIndex |-> p, vertexKey |-> v])
Build(p, v) == Do([type |-> "buildSettlement", playerIndex |-> p, vertexKey |-> v])
Road(p, e) == Do([type |-> "buildRoad", playerIndex |-> p, edgeKey |-> e])
Buy(p) == Do(Act("buyDevCard", p))
Robber(p, h) == Do([type |-> "moveRobber", playerIndex |-> p, hex |-> h])
Steal(p, q, r) ==
    [action |-> [type |-> "stealResource", playerIndex |-> p, targetPlayerIndex |-> q],
     rnd |-> [dice |-> <<1, 1>>, stolenResource |-> r]]
Knight(p, h) == <<Do(Act("playKnight", p)), Robber(p, h)>>
Discard(p, b) == Do([type |-> "discardResources", playerIndex |-> p, resources |-> b])
Trade(p, q, o, r) ==
    << Do([type |-> "tradeOffer", playerIndex |-> p, offering |-> o, requesting |-> r]),
       Do(Act("tradeAccept", q)),
       Do([type |-> "tradeConfirm", playerIndex |-> p, targetPlayerIndex |-> q]) >>

\* one step of the replay; accepted: no step so far was rejected
StepTaken(pos, step, result) ==
    [state |-> result.state,
     update |-> IF result.valid THEN [action |-> step.action, events |-> result.events]
                ELSE pos.update,
     played |-> IF result.valid THEN CountPlayed(pos.played, step.action) ELSE pos.played,
     turn |-> IF result.valid THEN TurnAfter(pos.turn, step.action, result.state)
              ELSE pos.turn,
     accepted |-> result.valid]

ReplayStep(pos, step) ==
    StepTaken(pos, step, applyAction(pos.state, step.action, step.rnd))

\* fold applyAction over a script, up to the first step it rejects
RECURSIVE Replay(_, _)
Replay(pos, script) ==
    IF script = <<>> \/ ~pos.accepted THEN pos
    ELSE Replay(ReplayStep(pos, Head(script)), Tail(script))

NewGame(n) ==
    [state |-> initializeGame(n), update |-> NoUpdate, played |-> NothingPlayed,
     turn |-> NewTurn(initializeGame(n)), accepted |-> TRUE]

Roll12 == <<6, 6>>
Roll11 == <<5, 6>>
Roll9 == <<4, 5>>
Roll7 == <<3, 4>>
Roll6 == <<3, 3>>
Roll4 == <<2, 2>>
Roll3 == <<1, 2>>

Opening ==
    << Settle(0, VA), Pave(0, <<0, 0, "NE">>),
       Settle(1, VX), Pave(1, <<1, 0, "NE">>),
       Settle(1, VY), Pave(1, <<1, -1, "NE">>),
       Settle(0, VB), Pave(0, <<0, 0, "E">>) >>

\* seat 0 upgrades both settlements
Cities ==
    Pass(0, Roll12) \o Pass(1, Roll12) \o Pass(0, Roll12) \o Pass(1, Roll11)
    \o Turn(0, Roll9, <<Upgrade(0, VA)>>)
    \o Pass(1, Roll12) \o Pass(0, Roll12) \o Pass(1, Roll11)
    \o Turn(0, Roll9, <<Upgrade(0, VB)>>)

ToMarket == Pass(1, Roll4) \o <<Roll(0, Roll12)>>

\* seat 0 buys six cards and plays two knights; then seat 1 rolls a seven
\* with both hands above the limit
ToSeven ==
    <<Buy(0), Buy(0), Buy(0), End(0)>>
    \o Pass(1, Roll4)
    \o Turn(0, Roll12, Knight(0, FarHex) \o <<Buy(0)>>)
    \o Pass(1, Roll11)
    \o Pass(0, Roll12)
    \o Pass(1, Roll4)
    \o Turn(0, Roll12, Knight(0, initialRobberHex) \o <<Buy(0), Buy(0)>>)
    \o Pass(1, Roll6)
    \o Pass(0, Roll6)
    \o <<Roll(1, Roll7)>>

\* discards, two roads, a third settlement upgraded at once
Growth ==
    <<Discard(0, Bundle(5, 0, 0, 1, 1)), Discard(1, Bundle(3, 0, 3, 0, 0)),
      Robber(1, FarHex), End(1)>>
    \o Turn(0, Roll11, Trade(0, 1, Bundle(0, 0, 0, 2, 0), Bundle(0, 2, 0, 0, 0))
                       \o <<Road(0, <<0, 0, "SE">>), Road(0, <<-1, 1, "E">>), Buy(0)>>)
    \o Pass(1, Roll6)
    \o Turn(0, Roll4, Trade(0, 1, Bundle(0, 0, 0, 1, 0), Bundle(0, 1, 0, 0, 0))
                      \o <<Build(0, VC), Buy(0)>>)
    \o Pass(1, Roll6)
    \o Pass(0, Roll12)
    \o Pass(1, Roll12)
    \o Turn(0, Roll11, <<Upgrade(0, VC)>>)

\* a side road and three more cards: seat 0 stands at eight points
Endgame ==
    Pass(1, Roll4)
    \o Turn(0, Roll12, <<Buy(0)>>)
    \o Pass(1, Roll6)
    \o Turn(0, Roll11, Trade(0, 1, Bundle(0, 0, 0, 1, 0), Bundle(0, 3, 0, 0, 0))
                       \o <<Road(0, <<-1, 1, "NE">>), Buy(0)>>)
    \o Pass(1, Roll12)
    \o Turn(0, Roll12, <<Buy(0)>>)
    \o Pass(1, Roll4)
    \o <<Roll(0, Roll11)>>

\* three more cards, the last a monopoly, playable a round later
LastCards ==
    <<Buy(0), Buy(0), Buy(0), End(0)>> \o Pass(1, Roll6) \o <<Roll(0, Roll6)>>

\* the whole recorded game, and the number of steps to each position
Recorded == Opening \o Cities \o ToMarket \o ToSeven \o Growth \o Endgame \o LastCards

AtNewGame == Len(<<>>)
AtMarket == Len(Opening) + Len(Cities) + Len(ToMarket)
AtSeven == AtMarket + Len(ToSeven)
AtEightPoints == AtSeven + Len(Growth) + Len(Endgame)
AtNinePoints == AtEightPoints + Len(LastCards)

\* the position after the first n steps of the recorded game
Position(n) == Replay(NewGame(2), SubSeq(Recorded, 1, n))

\* a second game, the recorded one up to the seven; there seat 1 keeps its
\* wood and brick, sets the robber on the fields between the cities of seat 0
\* and paves two roads up to the city on VA; a round later it has the wood and
\* brick of two more roads
Frontier ==
    SubSeq(Recorded, 1, AtSeven)
    \o <<Discard(0, Bundle(5, 0, 0, 1, 1)), Discard(1, Bundle(0, 0, 3, 3, 0)),
          Robber(1, <<0, 0>>), Steal(1, 0, "ore"),
          Road(1, <<1, -2, "SE">>), Road(1, <<0, -1, "E">>), End(1)>>
    \o Pass(0, Roll4)
    \o <<Roll(1, Roll6)>>

\* the same game one action later: seat 0 is to roll and holds two knights
BeforeRoll == Frontier \o <<End(1)>>

\* the recorded game at eight points, seat 0 having played its road building
\* card: two free roads are owed
FreeRoads == SubSeq(Recorded, 1, AtEightPoints) \o <<Do(Act("playRoadBuilding", 0))>>

\* the recorded game at nine points, seat 0 having offered a wheat for a wood
\* and seat 1 having accepted; seat 0 holds a monopoly it can play
Bargain ==
    Recorded \o << Do([type |-> "tradeOffer", playerIndex |-> 0,
                       offering |-> Bundle(0, 0, 0, 1, 0), requesting |-> Bundle(1, 0, 0, 0, 0)]),
                   Do(Act("tradeAccept", 1)) >>

\* a third game, the recorded one up to the seven: seat 1 buys cards with the
\* ore of seat 0 and plays two knights, seat 0 waits with two knights played
\* and two in hand
TwoArmies ==
    SubSeq(Recorded, 1, AtSeven)
    \o <<Discard(0, Bundle(7, 0, 0, 0, 0)), Discard(1, Bundle(3, 3, 0, 0, 0)),
          Robber(1, FarHex)>>
    \o Trade(1, 0, Bundle(0, 0, 1, 0, 0), Bundle(0, 0, 0, 0, 3))
    \o <<Buy(1), Buy(1), Buy(1), End(1)>>
    \o Pass(0, Roll12)
    \o <<Roll(1, Roll3)>> \o Knight(1, initialRobberHex) \o <<End(1)>>
    \o Pass(0, Roll3)
    \o <<Roll(1, Roll12)>> \o Knight(1, FarHex)
    \o Trade(1, 0, Bundle(0, 0, 2, 0, 0), Bundle(0, 0, 0, 2, 2))
    \o <<Buy(1), Buy(1), End(1)>>
    \o Pass(0, Roll12)

\* seat 1 plays its third knight, seat 0 draws level a turn later
ArmiesLevel ==
    TwoArmies \o Knight(1, initialRobberHex) \o Pass(1, Roll12)

\* and seat 0 is to play its fourth
ArmiesPassing ==
    ArmiesLevel \o Knight(0, FarHex) \o Pass(0, Roll12) \o Pass(1, Roll12)

\* a fourth game, the recorded one up to the market: both seats save for ten
\* rounds, then seat 0 buys the brick of seat 1 and builds five roads, three
\* settlements and two cities in one turn.  It stands at nine points with
\* all four city pieces on the board, one settlement left to upgrade and the
\* price of a city in hand
Round(d) == Pass(1, d) \o Pass(0, d)

VZ == <<0, 2, "N">>

FourCities ==
    SubSeq(Recorded, 1, AtMarket) \o <<End(0)>>
    \o Round(Roll6) \o Round(Roll6) \o Round(Roll6) \o Round(Roll6)
    \o Round(Roll4) \o Round(Roll4)
    \o Round(Roll11) \o Pass(1, Roll11) \o Pass(0, Roll12)
    \o Round(Roll12) \o Pass(1, Roll12) \o <<Roll(0, Roll12)>>
    \o Trade(0, 1, Bundle(0, 0, 1, 0, 0), Bundle(0, 8, 0, 0, 0))
    \o <<Road(0, <<0, 0, "SE">>), Road(0, <<-1, 1, "E">>), Road(0, <<-1, 1, "NE">>),
         Road(0, <<0, 1, "NE">>), Road(0, <<0, 1, "E">>),
         Build(0, VC), Build(0, VD), Build(0, VZ), Upgrade(0, VC), Upgrade(0, VD)>>

\* a three-seat game for the longest road.  Seat 0 settles on both sides of
\* the fields <<0, 0>>, seat 1 on VX and VY, seat 2 around the hills
\* <<0, 2>>; after five rounds of saving each seat paves up to a road of
\* five, seat 0 first; then seat 1 paves up to the corner between the
\* settlements of seat 0 and settles on it
Roll8 == <<4, 4>>
Roll10 == <<4, 6>>

WA == <<0, 0, "S">>
WB == <<0, -1, "S">>
WC == <<0, 2, "S">>

Round3s(a, b, c) == Pass(0, a) \o Pass(1, b) \o Pass(2, c)

DraftRace ==
    << Settle(0, WA), Pave(0, <<0, 0, "SE">>),
       Settle(1, VX), Pave(1, <<1, 0, "NE">>),
       Settle(2, VZ), Pave(2, <<0, 2, "NE">>),
       Settle(2, WC), Pave(2, <<0, 2, "SE">>),
       Settle(1, VY), Pave(1, <<1, -1, "E">>),
       Settle(0, WB), Pave(0, <<0, -1, "SE">>) >>

RaceSavings ==
    Round3s(Roll8, Roll8, Roll8) \o Round3s(Roll8, Roll8, Roll8)
    \o Round3s(Roll8, Roll10, Roll10) \o Round3s(Roll10, Roll10, Roll10)
    \o Round3s(Roll3, Roll9, Roll9)

RaceA ==
    <<Roll(0, Roll12)>> \o Trade(0, 2, Bundle(4, 0, 0, 0, 0), Bundle(0, 3, 0, 0, 0))
    \o <<Road(0, <<0, 0, "E">>), Road(0, <<0, 0, "NE">>), Road(0, <<-1, 1, "E">>), End(0)>>

RaceB ==
    <<Roll(1, Roll12)>> \o Trade(1, 0, Bundle(0, 0, 1, 0, 0), Bundle(5, 0, 0, 0, 0))
    \o Trade(1, 2, Bundle(0, 0, 0, 1, 0), Bundle(0, 5, 0, 0, 0))
    \o <<Road(1, <<1, 0, "E">>), Road(1, <<1, 1, "NE">>), Road(1, <<1, -1, "NE">>), End(1)>>

RaceC ==
    <<Roll(2, Roll12), Road(2, <<0, 2, "E">>), Road(2, <<0, 1, "E">>),
      Road(2, <<0, 1, "NE">>), End(2)>>

RaceCut ==
    Pass(0, Roll12) \o <<Roll(1, Roll12), Road(1, <<1, -1, "SE">>), Build(1, <<1, -1, "S">>)>>

\* the game up to the last road of each seat, and up to the road of seat 1
\* towards the corner it will settle
BeforeFifthA == DraftRace \o RaceSavings \o SubSeq(RaceA, 1, Len(RaceA) - 2)
BeforeFifthB == DraftRace \o RaceSavings \o RaceA \o SubSeq(RaceB, 1, Len(RaceB) - 2)
BeforeFifthC ==
    DraftRace \o RaceSavings \o RaceA \o RaceB \o SubSeq(RaceC, 1, Len(RaceC) - 2)
BeforeCut ==
    DraftRace \o RaceSavings \o RaceA \o RaceB \o RaceC
    \o SubSeq(RaceCut, 1, Len(RaceCut) - 2)

\* the drafts of a three-seat and of a four-seat game.  The first is placed
\* on corners away from those of the recorded game.  In the second, seats 1,
\* 2 and 3 settle around the fields <<0, 0>>, and seat 2 ends the draft
\* without a card, its second settlement touching the desert only.
Draft3 ==
    << Settle(0, <<-2, 1, "N">>), Pave(0, <<-2, 0, "E">>),
       Settle(1, <<-1, 0, "N">>), Pave(1, <<-1, -1, "E">>),
       Settle(2, <<-2, 2, "N">>), Pave(2, <<-2, 1, "E">>),
       Settle(2, <<0, -1, "N">>), Pave(2, <<0, -2, "E">>),
       Settle(1, <<-1, 3, "N">>), Pave(1, <<-1, 2, "E">>),
       Settle(0, <<-1, -1, "N">>), Pave(0, <<-1, -2, "E">>) >>

\* the three-seat game in its first round, the last seat having rolled
Round3 == Draft3 \o Pass(0, Roll4) \o Pass(1, Roll4) \o <<Roll(2, Roll4)>>

\* the same game a little later: seat 2 has offered its wood for a wheat and
\* seat 1 has accepted
Bargain3 ==
    Round3 \o << Do([type |-> "tradeOffer", playerIndex |-> 2,
                     offering |-> Bundle(1, 0, 0, 0, 0), requesting |-> Bundle(0, 0, 0, 1, 0)]),
                 Do(Act("tradeAccept", 1)) >>

Draft4 ==
    << Settle(0, <<-2, 1, "N">>), Pave(0, <<-2, 0, "E">>),
       Settle(1, VA), Pave(1, <<0, 0, "NE">>),
       Settle(2, VD), Pave(2, <<-1, 1, "NE">>),
       Settle(3, VB), Pave(3, <<0, 0, "E">>),
       Settle(3, <<0, -1, "N">>), Pave(3, <<0, -2, "E">>),
       Settle(2, <<0, -2, "N">>), Pave(2, <<0, -3, "SE">>),
       Settle(1, <<-1, 3, "N">>), Pave(1, <<-1, 2, "E">>),
       Settle(0, <<-1, -1, "N">>), Pave(0, <<-1, -2, "E">>) >>

\* the positions of a draft of n seats after each of its placements, from the
\* new game to the finished draft
DraftPositions(n, draft) ==
    { Replay(NewGame(n), SubSeq(draft, 1, k)) : k \in 0..(4 * n) }

(***************************************************************************)
(* The room: it starts from a new game or from a position of the recorded  *)
(* game, and processes the actions its clients submit.                     *)
(***************************************************************************)
\* a game of four in which seat 0 is fenced in: it settles on the coast of
\* two corner hexes, each with its road along the coast, and seats 1 and 2
\* pave the edges at both ends; seat 0 then buys the first eight cards of the
\* deck, the eighth a road building card, and has rolled a round later
Roll5 == <<2, 3>>

FencedDraft ==
    << Settle(0, <<3, -1, "S">>), Pave(0, <<2, 0, "E">>),
       Settle(1, <<1, 2, "N">>), Pave(1, <<1, 1, "E">>),
       Settle(2, <<-1, -2, "S">>), Pave(2, <<-2, -1, "E">>),
       Settle(3, <<-1, 1, "S">>), Pave(3, <<-1, 1, "SE">>),
       Settle(3, <<1, -1, "N">>), Pave(3, <<1, -1, "NE">>),
       Settle(2, <<-2, 1, "N">>), Pave(2, <<-2, 0, "SE">>),
       Settle(1, <<2, -1, "S">>), Pave(1, <<2, -1, "SE">>),
       Settle(0, <<-3, 1, "N">>), Pave(0, <<-3, 0, "E">>) >>

FencedRounds ==
    Pass(0, Roll5) \o Pass(1, Roll6) \o Pass(2, Roll6) \o Pass(3, Roll10)
    \o Pass(0, Roll5)
    \o Turn(1, Roll9, Trade(1, 3, Bundle(0, 0, 1, 0, 0), Bundle(1, 2, 0, 0, 0))
                      \o <<Road(1, <<2, 0, "NE">>), Road(1, <<2, 0, "SE">>)>>)
    \o Turn(2, Roll9, Trade(2, 3, Bundle(0, 0, 0, 1, 0), Bundle(1, 2, 0, 0, 0))
                      \o <<Road(2, <<-3, 1, "NE">>), Road(2, <<-2, -1, "SE">>)>>)
    \o Pass(3, Roll9)
    \o Pass(0, Roll5) \o Pass(1, Roll11) \o Pass(2, Roll11) \o Pass(3, Roll9)
    \o Turn(0, Roll5, Trade(0, 1, Bundle(0, 0, 0, 0, 1), Bundle(0, 0, 7, 0, 0))
                      \o Trade(0, 2, Bundle(0, 0, 1, 0, 0), Bundle(0, 0, 0, 0, 5))
                      \o Trade(0, 3, Bundle(0, 0, 0, 0, 1), Bundle(0, 0, 0, 8, 0))
                      \o <<Buy(0), Buy(0), Buy(0), Buy(0), Buy(0), Buy(0), Buy(0), Buy(0)>>)
    \o Pass(1, Roll12) \o Pass(2, Roll12) \o Pass(3, Roll12)
    \o <<Roll(0, Roll12)>>

Fenced == FencedDraft \o FencedRounds

\* A three-seat game in which seat 0 holds the longest road with five
\* segments, seat 2 has four cities and a road of five segments of its own
\* (a tie, so the title stayed with seat 0), and seat 1 has rolled and paved
\* its way to the middle of seat 0's road, with a settlement in hand.
HandoverDraft ==
    << Settle(0, WA), Pave(0, <<0, 0, "SE">>),
       Settle(1, VX), Pave(1, <<1, 0, "NE">>),
       Settle(2, <<0, 1, "S">>), Pave(2, <<0, 1, "SE">>),
       Settle(2, <<-1, -1, "S">>), Pave(2, <<-2, 0, "E">>),
       Settle(1, VY), Pave(1, <<1, -1, "E">>),
       Settle(0, WB), Pave(0, <<0, -1, "SE">>) >>

HandoverRounds ==
    Pass(0, Roll9) \o Pass(1, Roll9) \o Turn(2, Roll3, <<Upgrade(2, <<0, 1, "S">>)>>)
    \o Round3s(Roll8, Roll8, Roll8)
    \o Turn(0, Roll8, Trade(0, 2, Bundle(0, 0, 0, 1, 1), Bundle(0, 3, 0, 0, 0))
                      \o <<Road(0, <<0, 0, "E">>), Road(0, <<0, 0, "NE">>),
                           Road(0, <<-1, 1, "E">>)>>)
    \o Turn(1, Roll8, Trade(1, 0, Bundle(0, 0, 0, 1, 0), Bundle(2, 0, 0, 0, 0))
                      \o Trade(1, 2, Bundle(0, 0, 2, 0, 0), Bundle(0, 1, 0, 0, 0)))
    \o Pass(2, Roll5)
    \o Pass(0, Roll5) \o Pass(1, Roll9)
    \o Turn(2, Roll5, <<Upgrade(2, <<-1, -1, "S">>)>>)
    \o Pass(0, Roll5) \o Pass(1, Roll5) \o Pass(2, Roll9)
    \o Pass(0, Roll9) \o Pass(1, Roll5)
    \o Turn(2, Roll9, << Road(2, <<-2, 1, "NE">>), Road(2, <<-2, 1, "E">>),
                         Road(2, <<-2, 2, "NE">>), Road(2, <<-2, 2, "E">>),
                         Build(2, <<-1, 0, "S">>), Build(2, <<-1, 1, "S">>),
                         Upgrade(2, <<-1, 0, "S">>), Upgrade(2, <<-1, 1, "S">>) >>)
    \o Pass(0, Roll12)
    \o <<Roll(1, Roll12), Road(1, <<1, -1, "SE">>)>>

BeforeHandover == HandoverDraft \o HandoverRounds

NewGameBudget == 8
MarketBudget == 4
SevenBudget == 5
EightPointsBudget == 2
NinePointsBudget == 2
FrontierBudget == 2
DraftBudget == 2
BeforeRollBudget == 3
FreeRoadsBudget == 3
ArmiesBudget == 2
FourCitiesBudget == 2
RaceBudget == 2
FencedBudget == 1
HandoverBudget == 1

StartingPositions ==
    { [pos |-> Position(m[1]), budget |-> m[2]] :
        m \in { <<AtNewGame, NewGameBudget>>, <<AtMarket, MarketBudget>>,
                <<AtSeven, SevenBudget>>, <<AtEightPoints, EightPointsBudget>>,
                <<AtNinePoints, NinePointsBudget>> } }
    \cup { [pos |-> Replay(NewGame(2), Frontier), budget |-> FrontierBudget] }
    \cup { [pos |-> Replay(NewGame(2), BeforeRoll), budget |-> BeforeRollBudget] }
    \cup { [pos |-> Replay(NewGame(2), FreeRoads), budget |-> FreeRoadsBudget] }
    \cup { [pos |-> Replay(NewGame(2), Bargain), budget |-> NinePointsBudget] }
    \cup { [pos |-> Replay(NewGame(2), FourCities), budget |-> FourCitiesBudget] }
    \cup { [pos |-> Replay(NewGame(4), Fenced), budget |-> FencedBudget] }
    \cup { [pos |-> Replay(NewGame(3), BeforeHandover), budget |-> HandoverBudget] }
    \cup { [pos |-> Replay(NewGame(3), script), budget |-> RaceBudget] :
               script \in {BeforeFifthA, BeforeFifthB, BeforeFifthC, BeforeCut} }
    \cup { [pos |-> Replay(NewGame(2), script), budget |-> ArmiesBudget] :
               script \in {TwoArmies, ArmiesLevel, ArmiesPassing} }
    \cup { [pos |-> p, budget |-> DraftBudget] :
               p \in DraftPositions(3, Draft3) \cup DraftPositions(4, Draft4)
                      \cup {Replay(NewGame(3), Round3), Replay(NewGame(3), Bargain3)} }

Init ==
    \E sp \in StartingPositions :
        /\ sp.pos.accepted
        /\ state = sp.pos.state
        /\ update = sp.pos.update
        /\ played = sp.pos.played
        /\ turn = sp.pos.turn
        /\ budget = sp.budget
        /\ controller = NoController

Next ==
    \/ SetupPlaceSettlement
    \/ SetupPlaceRoad
    \/ RollDice
    \/ BuildSettlement
    \/ BuildRoad
    \/ BuildCity
    \/ BuyDevCard
    \/ PlayKnight
    \/ PlayRoadBuilding
    \/ PlayYearOfPlenty
    \/ PlayMonopoly
    \/ MoveRobber
    \/ StealResource
    \/ DiscardResources
    \/ TradeBank
    \/ TradeOffer
    \/ TradeAccept
    \/ TradeReject
    \/ TradeConfirm
    \/ TradeCancel
    \/ EndTurn

Spec == Init /\ [][Next]_vars


(***************************************************************************)
(* Properties of the engine, each checked in every state the room reaches  *)
(* and, where it speaks of submissions, for every action record the        *)
(* bounded clients can submit in that state.                               *)
(***************************************************************************)
\* what applyAction returns for submission a in the current state
Results(a) == {applyAction(state, a, rnd) : rnd \in RandomOutcomes(state, a)}

\* what C1 asks of the results of submission a, error being the validator's
AllOrNothing(a, error) ==
    \A result \in Results(a) :
        IF error # NoError
        THEN result = [valid |-> FALSE, error |-> error, state |-> state, events |-> <<>>]
        ELSE result.valid /\ result.error = NoError

\* C1: whenever validateAction returns an error for an action, applyAction
\* returns valid = false with that very error, the input state with no field
\* changed and no events; an action validateAction passes is applied (valid).
C1_RejectionIsAtomic ==
    \A a \in ActionInputs(state) : AllOrNothing(a, validateAction(state, a))

\* C1 witness: an action has been accepted, and in the state it led to a
\* submission is rejected for lack of resources and another for its phase
C1_Witness ==
    /\ update.action.type = "tradeBank"
    /\ \E a \in ActionInputs(state) :
          validateAction(state, a) = "Insufficient resources for settlement"
    /\ \E a \in ActionInputs(state) : validateAction(state, a) = "Not in Discard phase"

\* C2: an action that validateAction accepts has a type that
\* PHASE_ALLOWED_ACTIONS lists for the current phase; the action last applied
\* was accepted by this rule, so none outside the whitelist is ever applied.
C2_OnlyWhitelistedAccepted ==
    \A a \in ActionInputs(state) :
        validateAction(state, a) = NoError => isActionAllowedInPhase(state.phase, a.type)

\* C2 witness: after a roll the phase is Main, where endTurn is accepted and
\* rollDice, which the whitelist of Main does not list, is rejected
C2_Witness ==
    /\ update.action.type = "rollDice"
    /\ state.phase = "main"
    /\ validateAction(state, Act("endTurn", state.currentPlayerIndex)) = NoError
    /\ validateAction(state, Act("rollDice", state.currentPlayerIndex)) # NoError

\* the submissions of a seat other than the current one that C3 lets pass
OffTurnException(s, a) ==
    \/ /\ a.type = "discardResources"
       /\ s.phase = "discard"
       /\ a.playerIndex \in s.playersNeedingToDiscard
    \/ /\ a.type \in {"tradeAccept", "tradeReject"}
       /\ s.phase = "main"
       /\ s.pendingTrade # <<>>
       /\ a.playerIndex # Pending(s).fromPlayer

\* C3: an action of a seat other than currentPlayerIndex is accepted only if
\* it is a discardResources of a seat listed in playersNeedingToDiscard during
\* Discard, or a tradeAccept/tradeReject during Main of a seat other than the
\* proposer of the pending trade; every other one is rejected, state unchanged.
C3_OffTurnOnlyDiscardAndTradeReply ==
    \A a \in ActionInputs(state) :
        a.playerIndex # state.currentPlayerIndex =>
            \/ OffTurnException(state, a)
            \/ /\ validateAction(state, a) # NoError
               /\ \A result \in Results(a) : ~result.valid /\ result.state = state

\* C3 witness: the seat that is not on turn has just discarded; it is no
\* longer listed, and a further discard of that seat is rejected
C3_Witness ==
    /\ update.action.type = "discardResources"
    /\ update.action.playerIndex # state.currentPlayerIndex
    /\ state.phase = "discard"
    /\ update.action.playerIndex \notin state.playersNeedingToDiscard
    /\ \E a \in InputsOf(state, "discardResources") :
          /\ a.playerIndex = update.action.playerIndex
          /\ validateAction(state, a) = "This player does not need to discard"


\* C4: once the phase is GameOver every action of every type from every seat
\* is rejected ("Game is over") and returns the state as it is, winner
\* included: no submission leads out of GameOver.
C4_GameOverIsTerminal ==
    state.phase = "gameOver" =>
        \A a \in ActionInputs(state) :
            /\ validateAction(state, a) = "Game is over"
            /\ \A result \in Results(a) :
                  result = [valid |-> FALSE, error |-> "Game is over",
                            state |-> state, events |-> <<>>]

\* C4 witness: a knight gave seat 0 the largest army and the game; a roll, a
\* purchase and an end of turn of that seat are among the submissions rejected
C4_Witness ==
    /\ state.phase = "gameOver"
    /\ update.action.type = "playKnight"
    /\ state.winner = 0
    /\ {Act("rollDice", 0), Act("buyDevCard", 0), Act("endTurn", 0)}
          \subseteq ActionInputs(state)

\* victory points as the rules count them: settlements on the board, cities
\* twice, two for each award held, and the victory-point cards in both hands
PointsOf(s, i) ==
      Cardinality({v \in DOMAIN s.vertexBuildings :
                      s.vertexBuildings[v] = [type |-> "settlement", playerIndex |-> i]})
    + 2 * Cardinality({v \in DOMAIN s.vertexBuildings :
                          s.vertexBuildings[v] = [type |-> "city", playerIndex |-> i]})
    + (IF s.longestRoadPlayer = i THEN 2 ELSE 0)
    + (IF s.largestArmyPlayer = i THEN 2 ELSE 0)
    + Cardinality({k \in DOMAIN s.players[i].developmentCards :
                      s.players[i].developmentCards[k] = "victoryPoint"})
    + Cardinality({k \in DOMAIN s.players[i].newDevCards :
                      s.players[i].newDevCards[k] = "victoryPoint"})

\* C5: winner is set exactly when the phase is GameOver, and then the winner
\* has at least 10 victory points; while the phase is not GameOver every seat
\* has fewer than 10.
C5_WinnerIffTenPoints ==
    /\ (state.winner # NoPlayer) <=> (state.phase = "gameOver")
    /\ state.phase = "gameOver" =>
          state.winner \in Seats(state) /\ PointsOf(state, state.winner) >= 10
    /\ state.phase # "gameOver" => \A i \in Seats(state) : PointsOf(state, i) < 10

\* C5 witness: the road that made seat 0's road the longest brought its
\* points from 8 to exactly 10 and ended the game
C5_Witness ==
    /\ update.action.type = "buildRoad"
    /\ state.phase = "gameOver"
    /\ state.winner = 0
    /\ state.longestRoadPlayer = 0
    /\ PointsOf(state, 0) = 10

\* C6: after every accepted action each of the five resource counts of every
\* player is an integer greater than or equal to 0, whatever the payloads.
C6_ResourcesNeverNegative ==
    \A i \in Seats(state) : \A r \in RESOURCE_TYPES :
        state.players[i].resources[r] \in Nat


\* a building stands on a vertex next to v
NextToBuilding(s, v) ==
    v \in Vertices /\ \E w \in vertexToVertices[v] : w \in DOMAIN s.vertexBuildings

\* placement a passes every test its validator makes before the distance test
PlaceableButForDistance(s, a) ==
    /\ a.playerIndex = s.currentPlayerIndex
    /\ a.vertexKey \notin DOMAIN s.vertexBuildings
    /\ \/ a.type = "setupPlaceSettlement" /\ s.phase = "setupSettlement"
       \/ /\ a.type = "buildSettlement" /\ s.phase = "main"
          /\ s.players[a.playerIndex].settlements > 0
          /\ \A r \in {"wood", "brick", "sheep", "wheat"} :
                s.players[a.playerIndex].resources[r] >= 1

\* C7: no two buildings, of any type and owners, stand on adjacent vertices;
\* a setupPlaceSettlement or buildSettlement on a vertex next to a building is
\* rejected and leaves the state unchanged, and with the distance-rule error
\* whenever the placement passes the tests made before the distance test.
C7_DistanceRule ==
    /\ \A v \in DOMAIN state.vertexBuildings : ~NextToBuilding(state, v)
    /\ \A a \in InputsOf(state, "setupPlaceSettlement") \cup InputsOf(state, "buildSettlement") :
          NextToBuilding(state, a.vertexKey) =>
             /\ validateAction(state, a) # NoError
             /\ \A result \in Results(a) : ~result.valid /\ result.state = state
             /\ PlaceableButForDistance(state, a) =>
                   validateAction(state, a) = "Too close to another building (distance rule)"

\* C7 witness: a settlement was just built in Main, and the builder, who can
\* pay for another, is refused a vertex next to a building by the distance rule
C7_Witness ==
    /\ update.action.type = "buildSettlement"
    /\ state.phase = "main"
    /\ \E a \in InputsOf(state, "buildSettlement") :
          /\ NextToBuilding(state, a.vertexKey)
          /\ PlaceableButForDistance(state, a)
          /\ validateAction(state, a) = "Too close to another building (distance rule)"

\* the road of action a would touch the builder's network as C8 requires
TouchesOwnNetwork(s, a) ==
    \E v \in {edgeToVertices[a.edgeKey][1], edgeToVertices[a.edgeKey][2]} :
        \/ /\ v \in DOMAIN s.vertexBuildings
           /\ s.vertexBuildings[v].playerIndex = a.playerIndex
        \/ /\ ~(v \in DOMAIN s.vertexBuildings
                /\ s.vertexBuildings[v].playerIndex # a.playerIndex)
           /\ \E e \in vertexToEdges[v] \ {a.edgeKey} :
                 e \in DOMAIN s.edgeRoads /\ s.edgeRoads[e].playerIndex = a.playerIndex

\* C8: buildRoad is accepted only on an edge of the board that carries no road
\* and has an endpoint with the builder's own building, or an endpoint without
\* an opponent's building that another road of the builder touches.
C8_RoadsConnect ==
    \A a \in InputsOf(state, "buildRoad") :
        validateAction(state, a) = NoError =>
            /\ a.edgeKey \in Edges
            /\ a.edgeKey \notin DOMAIN state.edgeRoads
            /\ TouchesOwnNetwork(state, a)

\* the only roads of the builder next to the edge of a meet it on a building
\* of an opponent
BlockedByOpponent(s, a) ==
    /\ a.edgeKey \in Edges
    /\ ~TouchesOwnNetwork(s, a)
    /\ \E v \in {edgeToVertices[a.edgeKey][1], edgeToVertices[a.edgeKey][2]} :
          /\ v \in DOMAIN s.vertexBuildings
          /\ s.vertexBuildings[v].playerIndex # a.playerIndex
          /\ \E e \in vertexToEdges[v] \ {a.edgeKey} :
                e \in DOMAIN s.edgeRoads /\ s.edgeRoads[e].playerIndex = a.playerIndex

\* C8 witness: a road was just built and paid for; of the further roads the
\* builder submits, one is refused because its own road meets the edge only on
\* an opponent's city, and one as already built
C8_Witness ==
    /\ update.action.type = "buildRoad"
    /\ state.phase = "main"
    /\ \E a \in InputsOf(state, "buildRoad") :
          /\ BlockedByOpponent(state, a)
          /\ validateAction(state, a) = "Road must connect to your own road, settlement, or city"
    /\ \E a \in InputsOf(state, "buildRoad") :
          validateAction(state, a) = "Edge already has a road"


\* settlements on the board + cities on the board + settlement pieces in hand
PieceSum(s, i) ==
      Cardinality({v \in DOMAIN s.vertexBuildings : s.vertexBuildings[v].playerIndex = i})
    + s.players[i].settlements

\* C9, as claimed: for every player the sum of settlements on the board,
\* cities on the board and remaining settlement pieces is the same in every
\* reachable state; no action changes it.
C9_PieceSumConstant ==
    [][\A i \in Seats(state) : PieceSum(state', i) = PieceSum(state, i)]_vars

\* C9, amended: the sum is unchanged by every action other than buildCity,
\* setupPlaceSettlement and buildSettlement among them, and a buildCity raises
\* the builder's sum by exactly one (the settlement piece goes back to hand).
C9_PieceSumGrowsWithCities ==
    [][\A i \in Seats(state) :
          PieceSum(state', i) =
              PieceSum(state, i)
              + (IF update'.action.type = "buildCity" /\ update'.action.playerIndex = i
                 THEN 1 ELSE 0)]_vars

\* C9 witness: a settlement built in Main has just been upgraded to a city,
\* and the builder's sum exceeds the five pieces by its cities on the board
C9_Witness ==
    /\ update.action.type = "buildCity"
    /\ LET i == update.action.playerIndex IN
          /\ state.vertexBuildings[update.action.vertexKey] = [type |-> "city", playerIndex |-> i]
          /\ PieceSum(state, i) =
                5 + Cardinality({v \in DOMAIN state.vertexBuildings :
                                    state.vertexBuildings[v] = [type |-> "city", playerIndex |-> i]})
          /\ PieceSum(state, i) > 5

\* cards of kind k in the deck and in the hands, usable or drawn this turn
CardsHeld(s, k) ==
      Cardinality({n \in DOMAIN s.devCardDeck : s.devCardDeck[n] = k})
    + SumOver(Seats(s),
              [i \in Seats(s) |->
                  Cardinality({n \in DOMAIN s.players[i].developmentCards :
                                  s.players[i].developmentCards[n] = k})
                  + Cardinality({n \in DOMAIN s.players[i].newDevCards :
                                    s.players[i].newDevCards[n] = k})])

\* the deck, hands and play counts keep the 25-card composition
Composition ==
    /\ \A k \in {"knight", "victoryPoint", "roadBuilding", "yearOfPlenty", "monopoly"} :
          CardsHeld(state, k) + played[k] =
              [knight |-> 14, victoryPoint |-> 5, roadBuilding |-> 2,
               yearOfPlenty |-> 2, monopoly |-> 2][k]
    /\ played["knight"] = SumOver(Seats(state),
                                  [i \in Seats(state) |-> state.players[i].playedKnights])

\* an accepted buyDevCard moves the top card of the deck, and only it, to the
\* end of the buyer's drawn-this-turn hand
BuyMovesTopCard ==
    update'.action.type = "buyDevCard" =>
        LET i == update'.action.playerIndex IN
        /\ state.devCardDeck # <<>>
        /\ state'.devCardDeck = Tail(state.devCardDeck)
        /\ state'.players[i].newDevCards =
              Append(state.players[i].newDevCards, Head(state.devCardDeck))
        /\ state'.players[i].developmentCards = state.players[i].developmentCards
        /\ \A j \in Seats(state) \ {i} :
              /\ state'.players[j].newDevCards = state.players[j].newDevCards
              /\ state'.players[j].developmentCards = state.players[j].developmentCards

\* C10: for each kind, cards in the deck + cards in all hands + cards already
\* played make up the fixed composition (14/5/2/2/2), the knights played being
\* the sum of playedKnights; buyDevCard moves exactly the top card of the deck
\* into the buyer's drawn-this-turn hand; no card is created or duplicated.
C10_DeckComposition == []Composition /\ [][Composition' /\ BuyMovesTopCard]_vars

\* C10 witness: a card was just bought and sits in the buyer's drawn-this-turn
\* hand, after knights and another kind of card have been played
C10_Witness ==
    /\ update.action.type = "buyDevCard"
    /\ state.players[update.action.playerIndex].newDevCards # <<>>
    /\ played["knight"] >= 2
    /\ \E k \in {"roadBuilding", "yearOfPlenty", "monopoly"} : played[k] >= 1
    /\ Len(state.devCardDeck) < 25


\* the seats of an n-seat draft in the order of their turns: up, then down
RECURSIVE SeatsUp(_, _)
SeatsUp(from, n) == IF n = 0 THEN <<>> ELSE <<from>> \o SeatsUp(from + 1, n - 1)

RECURSIVE SeatsDown(_, _)
SeatsDown(from, n) == IF n = 0 THEN <<>> ELSE <<from>> \o SeatsDown(from - 1, n - 1)

SnakeDraft(n) == SeatsUp(0, n) \o SeatsDown(n - 1, n)

InDraft(s) == s.phase \in {"setupSettlement", "setupRoad"}

OwnedBy(f, i) == {k \in DOMAIN f : f[k].playerIndex = i}

\* while the draft runs, the roads on the board count its finished turns: the
\* seat to act is the next of the snake, it places a settlement when as many
\* settlements as roads stand and a road when one more does, and nothing else
\* is accepted
DraftTurn ==
    LET s == state
        n == NumPlayers(s)
        done == Cardinality(DOMAIN s.edgeRoads)
        standing == Cardinality(DOMAIN s.vertexBuildings)
    IN InDraft(s) =>
        /\ done < 2 * n
        /\ s.currentPlayerIndex = SnakeDraft(n)[done + 1]
        /\ s.phase = (IF standing = done THEN "setupSettlement" ELSE "setupRoad")
        /\ standing \in {done, done + 1}
        /\ \A a \in ActionInputs(s) :
              validateAction(s, a) = NoError =>
                 /\ a.playerIndex = SnakeDraft(n)[done + 1]
                 /\ a.type = (IF standing = done THEN "setupPlaceSettlement"
                                                ELSE "setupPlaceRoad")

\* a step of the draft is the placement of the seat whose turn it was, and
\* the step that leaves the draft is its 2n-th road
DraftStep ==
    InDraft(state) =>
        /\ update'.action.playerIndex = state.currentPlayerIndex
        /\ update'.action.type = (IF state.phase = "setupSettlement"
                                  THEN "setupPlaceSettlement" ELSE "setupPlaceRoad")
        /\ Cardinality(DOMAIN state'.vertexBuildings) + Cardinality(DOMAIN state'.edgeRoads)
             = Cardinality(DOMAIN state.vertexBuildings) + Cardinality(DOMAIN state.edgeRoads) + 1
        /\ InDraft(state') <=> Cardinality(DOMAIN state'.edgeRoads) < 2 * NumPlayers(state)
        /\ ~InDraft(state') =>
              /\ state'.phase = "preRoll"
              /\ state'.currentPlayerIndex = 0
              /\ Cardinality(DOMAIN state'.vertexBuildings) = 2 * NumPlayers(state)
              /\ Cardinality(DOMAIN state'.edgeRoads) = 2 * NumPlayers(state)
              /\ \A i \in Seats(state') :
                    /\ state'.players[i].settlements = 3
                    /\ state'.players[i].roads = 13
                    /\ Cardinality(OwnedBy(state'.vertexBuildings, i)) = 2
                    /\ Cardinality(OwnedBy(state'.edgeRoads, i)) = 2
                    /\ \A v \in OwnedBy(state'.vertexBuildings, i) :
                          state'.vertexBuildings[v].type = Settlement

\* C11: for 2, 3 and 4 seats the draft accepts exactly alternating
\* setupPlaceSettlement / setupPlaceRoad pairs by the seats in snake order
\* [0..N-1, N-1..0]; after the 2N-th road the phase is PreRoll with seat 0 to
\* act, every seat has 3 settlement pieces and 13 road pieces left, and the
\* board holds two settlements and two roads of each seat.
C11_SnakeDraft == []DraftTurn /\ [][DraftStep]_vars

\* C11 witness: the last road of a four-seat draft was just placed
C11_Witness ==
    /\ budget < DraftBudget
    /\ NumPlayers(state) = 4
    /\ update.action.type = "setupPlaceRoad"
    /\ update.action.playerIndex = 0
    /\ state.phase = "preRoll"
    /\ Cardinality(DOMAIN state.edgeRoads) = 8


\* the corner the last accepted action put a settlement on
JustSettled == update.action.vertexKey

Touches(e, v) == e \in Edges /\ v \in Range(edgeToVertices[e])

\* C12: in SetupRoad, in both rounds, setupPlaceRoad is accepted exactly from
\* the current player for the empty edges that touch the settlement this
\* player placed in the action before; an edge that touches only the first
\* settlement of the player is refused in round 2.
C12_SetupRoadAtNewSettlement ==
    (state.phase = "setupRoad" /\ update.action.type = "setupPlaceSettlement") =>
        \A a \in InputsOf(state, "setupPlaceRoad") :
            validateAction(state, a) = NoError
            <=> /\ a.playerIndex = state.currentPlayerIndex
                /\ update.action.playerIndex = a.playerIndex
                /\ Touches(a.edgeKey, JustSettled)
                /\ a.edgeKey \notin DOMAIN state.edgeRoads

\* C12 witness: in round 2 a seat has placed its second settlement; a free
\* edge at its first settlement is refused and an edge at the second accepted
C12_Witness ==
    /\ state.phase = "setupRoad"
    /\ state.setupRound = 2
    /\ update.action.type = "setupPlaceSettlement"
    /\ \E a \in InputsOf(state, "setupPlaceRoad") :
          /\ a.playerIndex = state.currentPlayerIndex
          /\ a.edgeKey \in Edges \ DOMAIN state.edgeRoads
          /\ ~Touches(a.edgeKey, JustSettled)
          /\ \E v \in OwnedBy(state.vertexBuildings, a.playerIndex) : Touches(a.edgeKey, v)
          /\ validateAction(state, a) = "Road must be adjacent to your last placed settlement"
    /\ \E a \in InputsOf(state, "setupPlaceRoad") : validateAction(state, a) = NoError


\* one card of its kind for each producing hex that has corner v
Around(v) ==
    [r \in RESOURCE_TYPES |->
        Cardinality({h \in Hexes : /\ v \in Range(hexToVertices[h])
                                   /\ hexTiles[h].terrain # "desert"
                                   /\ TERRAIN_TO_RESOURCE[hexTiles[h].terrain] = r})]

Hand(s, i) == s.players[i].resources

\* the step is the accepted action of type t by seat i that leaves it with two
\* settlements on the board
SecondPlacement(t, i) ==
    /\ update'.action.type = t
    /\ update'.action.playerIndex = i
    /\ Cardinality(OwnedBy(state'.vertexBuildings, i)) = 2

\* C13, as claimed: in the draft the hand of a seat changes only with the
\* setupPlaceSettlement that places its second settlement, which adds one
\* card per producing hex around that settlement; every other step of the
\* draft leaves every hand as it was.
C13_GrantWithSecondSettlement ==
    [][InDraft(state) =>
          \A i \in Seats(state) :
              Hand(state', i) =
                 IF SecondPlacement("setupPlaceSettlement", i)
                 THEN addResources(Hand(state, i), Around(update'.action.vertexKey))
                 ELSE Hand(state, i)]_vars

\* C13, amended: the grant comes with the setupPlaceRoad that follows the
\* second settlement of the seat: that step adds one card per producing hex
\* around the settlement just placed, once; no other step of the draft and no
\* placement of a first settlement changes a hand, so that a seat holds
\* nothing until then and the hexes around its second settlement after.
C13_GrantWithSecondRoad ==
    [][InDraft(state) =>
          \A i \in Seats(state) :
              /\ Hand(state', i) =
                    IF SecondPlacement("setupPlaceRoad", i)
                    THEN addResources(Hand(state, i), Around(JustSettled))
                    ELSE Hand(state, i)
              /\ SecondPlacement("setupPlaceRoad", i) =>
                    /\ update.action.type = "setupPlaceSettlement"
                    /\ update.action.playerIndex = i
                    /\ Hand(state, i) = EMPTY_RESOURCES
              /\ ~InDraft(state') =>
                    \E v \in OwnedBy(state'.vertexBuildings, i) :
                        Hand(state', i) = Around(v)]_vars

\* C13 witness: the road of a second settlement next to the desert was just
\* placed, and its seat holds the cards of the two other hexes; the seat that
\* waits for its second turn holds nothing
C13_Witness ==
    /\ budget < DraftBudget
    /\ update.action.type = "setupPlaceRoad"
    /\ update.action.edgeKey = <<0, -2, "E">>
    /\ LET i == update.action.playerIndex IN
          /\ Cardinality(OwnedBy(state.vertexBuildings, i)) = 2
          /\ Hand(state, i) = Bundle(1, 0, 0, 0, 1)
          /\ \E h \in Hexes : /\ <<0, -1, "N">> \in Range(hexToVertices[h])
                              /\ hexTiles[h].terrain = "desert"
    /\ \E j \in Seats(state) :
          /\ Cardinality(OwnedBy(state.vertexBuildings, j)) = 1
          /\ Hand(state, j) = EMPTY_RESOURCES


HandSize(s, i) ==
    Hand(s, i).wood + Hand(s, i).brick + Hand(s, i).sheep + Hand(s, i).wheat + Hand(s, i).ore

OverLimit(s) == {i \in Seats(s) : HandSize(s, i) > 7}

\* what the buildings of seat i yield in resource r on a total of t, corner by
\* corner: 1 for a settlement and 2 for a city, for each hex at the corner
\* that carries the token t, yields r and is free of the robber
Yield(s, t, i, r) ==
    LET corners == OwnedBy(s.vertexBuildings, i)
        perCorner == [v \in corners |->
            (IF s.vertexBuildings[v].type = City THEN 2 ELSE 1)
            * Cardinality({h \in Hexes : /\ v \in Range(hexToVertices[h])
                                         /\ hexTiles[h].numberToken = t
                                         /\ h # s.robberHex
                                         /\ hexTiles[h].terrain # "desert"
                                         /\ TERRAIN_TO_RESOURCE[hexTiles[h].terrain] = r})]
    IN SumOver(corners, perCorner)

RolledTotal(s) == s.lastDiceRoll[1] + s.lastDiceRoll[2]

\* C14: rollDice is accepted in PreRoll from the current player; on a 7 it
\* leads to Discard with exactly the seats holding more than 7 cards listed
\* when there is such a seat and to MoveRobber when there is none, and no hand
\* changes; on another total it leads to Main with the production of that
\* total added to the hands.
C14_RollOutcome ==
    [][update'.action.type = "rollDice" =>
          /\ state.phase = "preRoll"
          /\ update'.action.playerIndex = state.currentPlayerIndex
          /\ state'.currentPlayerIndex = state.currentPlayerIndex
          /\ IF RolledTotal(state') = 7
             THEN /\ \A i \in Seats(state) : Hand(state', i) = Hand(state, i)
                  /\ IF OverLimit(state) # {}
                     THEN /\ state'.phase = "discard"
                          /\ state'.playersNeedingToDiscard = OverLimit(state)
                     ELSE state'.phase = "moveRobber"
             ELSE /\ state'.phase = "main"
                  /\ \A i \in Seats(state) : \A r \in RESOURCE_TYPES :
                        Hand(state', i)[r] = Hand(state, i)[r]
                                               + Yield(state, RolledTotal(state'), i, r)]_vars

\* C14 witness: a 7 was rolled while one seat held more than 7 cards and
\* another held cards but no more than 7: only the first is listed
C14_Witness ==
    /\ update.action.type = "rollDice"
    /\ budget < FrontierBudget
    /\ RolledTotal(state) = 7
    /\ state.phase = "discard"
    /\ state.playersNeedingToDiscard # {}
    /\ \E i \in Seats(state) :
          /\ i \notin state.playersNeedingToDiscard
          /\ HandSize(state, i) > 0
          /\ HandSize(state, i) <= 7

\* C14 witness: a 7 was rolled while no seat held more than 7 cards
C14_WitnessNoDiscard ==
    /\ update.action.type = "rollDice"
    /\ RolledTotal(state) = 7
    /\ state.phase = "moveRobber"
    /\ budget < DraftBudget


\* the bundle names cards the seat holds: of each kind a count from 0 up to
\* the count in the hand
HeldCards(s, i, b) == \A r \in RESOURCE_TYPES : 0 <= b[r] /\ b[r] <= Hand(s, i)[r]

BundleSize(b) == b.wood + b.brick + b.sheep + b.wheat + b.ore

\* in Discard a discard is accepted only from a listed seat and only for
\* exactly half its hand, rounded down, in cards it holds; moveRobber is refused
DiscardAccepted ==
    /\ \A a \in InputsOf(state, "discardResources") :
          validateAction(state, a) = NoError =>
             /\ state.phase = "discard"
             /\ a.playerIndex \in state.playersNeedingToDiscard
             /\ BundleSize(a.resources) = HandSize(state, a.playerIndex) \div 2
             /\ HeldCards(state, a.playerIndex, a.resources)
    /\ state.phase = "discard" =>
          /\ state.playersNeedingToDiscard # {}
          /\ \A a \in InputsOf(state, "moveRobber") : validateAction(state, a) # NoError

\* an accepted discard takes its seat, and no other, off the list, and the
\* phase becomes MoveRobber exactly when the list is empty
DiscardStep ==
    update'.action.type = "discardResources" =>
        LET i == update'.action.playerIndex IN
        /\ i \in state.playersNeedingToDiscard
        /\ state'.playersNeedingToDiscard = state.playersNeedingToDiscard \ {i}
        /\ state'.phase = (IF state'.playersNeedingToDiscard = {} THEN "moveRobber"
                                                                   ELSE "discard")
        /\ state'.currentPlayerIndex = state.currentPlayerIndex
        /\ Hand(state', i) = subtractResources(Hand(state, i), update'.action.resources)
        /\ \A j \in Seats(state) \ {i} : Hand(state', j) = Hand(state, j)

\* C15: in Discard, discardResources is accepted only from a seat still listed
\* in playersNeedingToDiscard and only for a bundle of exactly floor(hand/2)
\* cards that the seat holds; it takes that seat off the list, so that each
\* listed seat discards once, in any order; the phase stays Discard, with
\* moveRobber refused, while the list is non-empty and becomes MoveRobber
\* exactly when the last listed seat has discarded.
C15_DiscardHalfOnce == []DiscardAccepted /\ [][DiscardStep]_vars


\* the step resolves the robber: a moveRobber that leaves nobody to steal
\* from, or a stealResource
RobberResolved ==
    \/ update'.action.type = "moveRobber" /\ state'.phase # "stealResource"
    \/ update'.action.type = "stealResource"

\* C16: when the robber is resolved the phase becomes PreRoll if a knight
\* played before the dice of this turn were rolled sent it on its way, and
\* Main after a 7 or a knight played after the roll; the current player stays,
\* and after a pre-roll knight that player can roll and cannot end the turn.
C16_PhaseAfterRobber ==
    [][RobberResolved =>
          /\ turn.robber \in {"seven", "knight", "knightBeforeRoll"}
          /\ state'.currentPlayerIndex = state.currentPlayerIndex
          /\ update'.action.playerIndex = state.currentPlayerIndex
          /\ IF turn.robber = "knightBeforeRoll"
             THEN /\ ~turn.rolled
                  /\ state'.phase = "preRoll"
                  /\ validateAction(state', Act("rollDice", state'.currentPlayerIndex)) = NoError
                  /\ validateAction(state', Act("endTurn", state'.currentPlayerIndex)) # NoError
             ELSE /\ turn.rolled
                  /\ state'.phase = "main"]_vars

\* C16 witness: a knight played before the roll has moved the robber next to
\* the other seat, a card was stolen, and its player is back in PreRoll
C16_Witness ==
    /\ update.action.type = "stealResource"
    /\ turn.robber = "knightBeforeRoll"
    /\ ~turn.rolled
    /\ state.phase = "preRoll"

\* C16 witness: a knight played after the roll was resolved into Main
C16_WitnessAfterRoll ==
    /\ update.action.type \in {"moveRobber", "stealResource"}
    /\ turn.robber = "knight"
    /\ state.phase = "main"


\* the seats other than the mover that own a building at a corner of hex h and
\* hold at least one card
Candidates(s, mover, h) ==
    {i \in Seats(s) \ {mover} :
        /\ HandSize(s, i) > 0
        /\ \E v \in OwnedBy(s.vertexBuildings, i) : h \in vertexToHexes[v]}

\* what the validators accept of the robber
RobberAccepted ==
    /\ \A a \in InputsOf(state, "moveRobber") :
          validateAction(state, a) = NoError =>
             /\ state.phase = "moveRobber"
             /\ a.playerIndex = state.currentPlayerIndex
             /\ a.hex \in Hexes
             /\ a.hex # state.robberHex
    /\ state.phase = "stealResource" =>
          /\ state.robberStealTargets
               = Candidates(state, state.currentPlayerIndex, state.robberHex)
          /\ state.robberStealTargets # {}
    /\ \A a \in InputsOf(state, "stealResource") :
          validateAction(state, a) = NoError
          <=> /\ state.phase = "stealResource"
              /\ a.playerIndex = state.currentPlayerIndex
              /\ a.targetPlayerIndex # a.playerIndex
              /\ a.targetPlayerIndex
                   \in Candidates(state, state.currentPlayerIndex, state.robberHex)

\* an accepted moveRobber sets the robber on its hex and asks for a steal
\* exactly when that hex has candidates
RobberStep ==
    update'.action.type = "moveRobber" =>
        LET h == update'.action.hex
            mover == update'.action.playerIndex
        IN /\ h \in Hexes /\ h # state.robberHex
           /\ state'.robberHex = h
           /\ \A i \in Seats(state) : Hand(state', i) = Hand(state, i)
           /\ state'.phase = "stealResource" <=> Candidates(state, mover, h) # {}
           /\ state'.robberStealTargets = Candidates(state, mover, h)

\* C17: moveRobber is accepted only for a board hex other than the robber's;
\* afterwards the steal candidates are exactly the seats other than the mover
\* that own a building on a corner of the new robber hex and hold at least one
\* card, the phase is StealResource if and only if there is such a seat, and
\* stealResource is accepted only from the current player against one of them.
C17_RobberAndCandidates == []RobberAccepted /\ [][RobberStep]_vars

\* C17 witness: in a four-seat game the robber was moved onto a hex with
\* settlements of three other seats; the two that hold cards are the
\* candidates, the one without a card is not
C17_Witness ==
    /\ update.action.type = "moveRobber"
    /\ state.phase = "stealResource"
    /\ Cardinality(state.robberStealTargets) = 2
    /\ \E i \in Seats(state) \ (state.robberStealTargets \cup {state.currentPlayerIndex}) :
          /\ HandSize(state, i) = 0
          /\ \E v \in OwnedBy(state.vertexBuildings, i) : state.robberHex \in vertexToHexes[v]
          /\ validateAction(state, [type |-> "stealResource",
                                    playerIndex |-> state.currentPlayerIndex,
                                    targetPlayerIndex |-> i]) = "Invalid steal target"


PlayerFields == DOMAIN createPlayer

PlayTypes == {"playKnight", "playRoadBuilding", "playYearOfPlenty", "playMonopoly"}

KindCount(cards, k) == Cardinality({n \in DOMAIN cards : cards[n] = k})

IsPrefix(p, q) == Len(p) <= Len(q) /\ SubSeq(q, 1, Len(p)) = p

\* a play takes a card its player held when the turn began and has not played
\* since; a purchase goes to newDevCards; and between two endTurn nothing
\* enters developmentCards or leaves newDevCards
CardStep ==
    /\ update'.action.type \in PlayTypes =>
          /\ update'.action.playerIndex = state.currentPlayerIndex
          /\ turn.held[PlayedKind(update'.action)] >= 1
    /\ update'.action.type = "buyDevCard" =>
          LET i == update'.action.playerIndex IN
          /\ Len(state'.players[i].newDevCards) = Len(state.players[i].newDevCards) + 1
          /\ state'.players[i].developmentCards = state.players[i].developmentCards
    /\ update'.action.type # "endTurn" =>
          \A i \in Seats(state) :
              /\ IsPrefix(state.players[i].newDevCards, state'.players[i].newDevCards)
              /\ \A k \in DEV_CARD_KINDS :
                    KindCount(state'.players[i].developmentCards, k)
                      <= KindCount(state.players[i].developmentCards, k)
    /\ update'.action.type = "endTurn" =>
          LET i == update'.action.playerIndex IN
          /\ state'.players[i].newDevCards = <<>>
          /\ \A k \in DEV_CARD_KINDS :
                KindCount(state'.players[i].developmentCards, k)
                  = KindCount(state.players[i].developmentCards, k)
                    + KindCount(state.players[i].newDevCards, k)

\* a card kind held only in newDevCards cannot be played
NewCardsUnusable ==
    \A a \in ActionInputs(state) :
        (a.type \in PlayTypes /\ validateAction(state, a) = NoError) =>
            KindCount(state.players[a.playerIndex].developmentCards, PlayedKind(a)) >= 1

\* C19: a development card is never played in the turn in which it was
\* bought: a card obtained by buyDevCard stays in newDevCards, where the four
\* play actions cannot use it, until the endTurn of its buyer moves it into
\* developmentCards.
C19_NoPlayInTurnOfPurchase == []NewCardsUnusable /\ [][CardStep]_vars

\* C19 witness: a card of a kind the buyer did not hold was just bought, the
\* buyer has played no card this turn, and the play of that kind is refused
C19_Witness ==
    /\ update.action.type = "buyDevCard"
    /\ turn.plays = 0
    /\ \E a \in ActionInputs(state) :
          /\ a.type \in PlayTypes
          /\ a.playerIndex = state.currentPlayerIndex
          /\ PlayedKind(a) \in Range(state.players[a.playerIndex].newDevCards)
          /\ PlayedKind(a) \notin Range(state.players[a.playerIndex].developmentCards)
          /\ ~state.players[a.playerIndex].hasPlayedDevCardThisTurn
          /\ validateAction(state, a) \notin {NoError, "Not your turn"}


\* at most one play has been accepted since the last endTurn, and once it
\* has, every further play is refused
OnePlayAtMost ==
    /\ turn.plays <= 1
    /\ turn.plays = 1 =>
          \A a \in ActionInputs(state) :
              a.type \in PlayTypes => validateAction(state, a) # NoError

\* a play is accepted only in a turn in which none was accepted before
PlayStep == update'.action.type \in PlayTypes => turn.plays = 0 /\ turn'.plays = 1

\* C20: within one turn (between two consecutive endTurn actions, PreRoll
\* included) at most one of playKnight, playRoadBuilding, playYearOfPlenty,
\* playMonopoly is accepted; every further one is rejected in that turn.
C20_OnePlayPerTurn == []OnePlayAtMost /\ [][PlayStep]_vars

\* C20 witness: a card was played this turn, its player holds another usable
\* card in a phase that admits it, and the play of that card is refused
C20_Witness ==
    /\ turn.plays = 1
    /\ \E a \in ActionInputs(state) :
          /\ a.type \in PlayTypes
          /\ a.playerIndex = state.currentPlayerIndex
          /\ PlayedKind(a) \in Range(state.players[a.playerIndex].developmentCards)
          /\ state.phase = "main"
          /\ validateAction(state, a) = "Already played a development card this turn"


\* while free roads are owed: one or two are left, no more than the pieces of
\* the current player, and only its buildRoad is accepted
FreeRoadsOwed ==
    state.phase = "roadBuilding" =>
        /\ state.roadBuildingRoadsLeft \in 1..2
        /\ state.roadBuildingRoadsLeft <= state.players[state.currentPlayerIndex].roads
        /\ \A a \in ActionInputs(state) :
              validateAction(state, a) = NoError =>
                  a.type = "buildRoad" /\ a.playerIndex = state.currentPlayerIndex

\* an accepted playRoadBuilding opens the phase with min(2, pieces) roads owed
CardOpensRoadBuilding ==
    update'.action.type = "playRoadBuilding" /\ budget' # budget =>
        /\ state.phase = "main"
        /\ state'.phase = "roadBuilding"
        /\ state'.roadBuildingRoadsLeft
             = Min(2, state.players[update'.action.playerIndex].roads)

\* a step taken in RoadBuilding places one road of the current player, free
\* of charge, and ends in the given phase
FreeRoadPlaced(phaseAfter) ==
    state.phase = "roadBuilding" /\ budget' # budget =>
        LET a == update'.action
            i == state.currentPlayerIndex
        IN /\ a.type = "buildRoad" /\ a.playerIndex = i
           /\ DOMAIN state'.edgeRoads = DOMAIN state.edgeRoads \cup {a.edgeKey}
           /\ a.edgeKey \notin DOMAIN state.edgeRoads
           /\ state'.edgeRoads[a.edgeKey].playerIndex = i
           /\ \A j \in Seats(state) :
                 state'.players[j].resources = state.players[j].resources
           /\ state'.players[i].roads = state.players[i].roads - 1
           /\ state'.roadBuildingRoadsLeft = state.roadBuildingRoadsLeft - 1
           /\ state'.phase = phaseAfter

\* the phase after a free road: Main once none is owed
BackToMain == IF state.roadBuildingRoadsLeft = 1 THEN "main" ELSE "roadBuilding"

\* the phase after a free road, a road that wins the game ending it
BackToMainUnlessWon == IF state'.winner # NoPlayer THEN "gameOver" ELSE BackToMain

\* C21 as stated: an accepted playRoadBuilding moves the phase to RoadBuilding
\* with exactly min(2, remaining road pieces) free placements; in RoadBuilding
\* only buildRoad by the current player is accepted, each such road costs no
\* resources but consumes one road piece, and after exactly that many roads
\* have been placed the phase returns to Main.
C21_FreeRoadsThenMain ==
    []FreeRoadsOwed /\ [][CardOpensRoadBuilding /\ FreeRoadPlaced(BackToMain)]_vars

\* C21 amended: the same, except that a free road which brings its builder to
\* the winning score ends the game at once (phase GameOver), whether or not
\* another free road was owed.
C21_FreeRoadsThenMainUnlessWon ==
    []FreeRoadsOwed /\ [][CardOpensRoadBuilding /\ FreeRoadPlaced(BackToMainUnlessWon)]_vars

\* C21 witness: the room placed the second of two free roads of seat 0 in the
\* recorded game, its wood and brick untouched, and the turn goes on in Main
C21_Witness ==
    /\ update.action.type = "buildRoad"
    /\ budget <= FreeRoadsBudget - 2
    /\ turn.plays = 1
    /\ played["roadBuilding"] = 1
    /\ state.roadBuildingRoadsLeft = 0
    /\ state.phase = "main"
    /\ state.players[0].roads = INITIAL_ROADS - 7
    /\ state.players[0].resources = Position(AtEightPoints).state.players[0].resources

\* C21 witness of the amendment: the first free road won the game while a
\* second was still owed
C21_WitnessWon ==
    /\ update.action.type = "buildRoad"
    /\ state.phase = "gameOver"
    /\ state.roadBuildingRoadsLeft = 1


\* the terms of a pending trade: who proposed it, and the two bundles
Terms(t) == [fromPlayer |-> t.fromPlayer, offering |-> t.offering, requesting |-> t.requesting]

\* one slot holds the pending trade, and an offer is accepted only from the
\* current player, in Main, with the slot empty
OneTradeSlot ==
    /\ Len(state.pendingTrade) <= 1
    /\ \A a \in InputsOf(state, "tradeOffer") :
          validateAction(state, a) = NoError =>
              /\ a.playerIndex = state.currentPlayerIndex
              /\ state.phase = "main"
              /\ state.pendingTrade = <<>>

TradeStep ==
    budget' # budget =>
        LET a == update'.action IN
        /\ a.type = "tradeOffer" =>
              /\ state.pendingTrade = <<>>
              /\ state' = [state EXCEPT !.pendingTrade =
                              <<[fromPlayer |-> a.playerIndex, offering |-> a.offering,
                                 requesting |-> a.requesting, responses |-> <<>>]>>]
        /\ a.type \in {"tradeAccept", "tradeReject"} =>
              /\ state.pendingTrade # <<>>
              /\ a.playerIndex # Pending(state).fromPlayer
              /\ state' = [state EXCEPT !.pendingTrade[1].responses =
                              [p \in DOMAIN @ \cup {a.playerIndex} |->
                                  IF p = a.playerIndex
                                  THEN IF a.type = "tradeAccept" THEN "accept" ELSE "reject"
                                  ELSE @[p]]]
        /\ state.pendingTrade # <<>> =>
              IF state'.pendingTrade = <<>>
              THEN \/ a.type = "endTurn"
                   \/ /\ a.type \in {"tradeConfirm", "tradeCancel"}
                      /\ a.playerIndex = Pending(state).fromPlayer
              ELSE Terms(Pending(state')) = Terms(Pending(state))

\* C22: at most one peer trade is pending at any time: tradeOffer is accepted
\* only from the current player in Main when no trade is pending; tradeAccept
\* and tradeReject from another seat only record that seat's response, leave
\* the trade pending and change no resources; the trade stays pending until
\* the proposer's tradeConfirm or tradeCancel, or an endTurn.
C22_OnePendingTrade == []OneTradeSlot /\ [][TradeStep]_vars

\* C22 witness: in a game of more than two seats a seat other than the
\* proposer has just answered the pending trade, and a further offer of the
\* proposer, which it could pay, is refused
C22_Witness ==
    /\ NumPlayers(state) > 2
    /\ update.action.type \in {"tradeAccept", "tradeReject"}
    /\ state.pendingTrade # <<>>
    /\ update.action.playerIndex \in DOMAIN Pending(state).responses
    /\ \E a \in InputsOf(state, "tradeOffer") :
          /\ a.playerIndex = state.currentPlayerIndex
          /\ hasResources(state.players[a.playerIndex].resources, a.offering)
          /\ totalResources(a.offering) > 0 /\ totalResources(a.requesting) > 0
          /\ validateAction(state, a) = "A trade is already pending"


\* the hand that gives the bundle out and takes the bundle in
Swapped(hand, out, in) == [r \in RESOURCE_TYPES |-> hand[r] - out[r] + in[r]]

\* the count of one resource kind over all hands
TotalOf(s, r) == SumOver(Seats(s), [i \in Seats(s) |-> s.players[i].resources[r]])

\* a confirmation is accepted only from the proposer, for a seat that has
\* accepted, with both bundles in the hands that give them
ConfirmGuard ==
    \A a \in InputsOf(state, "tradeConfirm") :
        validateAction(state, a) = NoError =>
            /\ state.pendingTrade # <<>>
            /\ a.playerIndex = Pending(state).fromPlayer
            /\ a.targetPlayerIndex \in DOMAIN Pending(state).responses
            /\ Pending(state).responses[a.targetPlayerIndex] = "accept"
            /\ a.targetPlayerIndex # a.playerIndex
            /\ hasResources(state.players[a.playerIndex].resources, Pending(state).offering)
            /\ hasResources(state.players[a.targetPlayerIndex].resources,
                            Pending(state).requesting)

\* an accepted confirmation swaps the bundles between the two seats, clears
\* the trade and changes nothing else
ConfirmStep ==
    update'.action.type = "tradeConfirm" /\ budget' # budget =>
        LET a == update'.action
            t == Pending(state)
        IN /\ state'.players[a.playerIndex].resources
                = Swapped(state.players[a.playerIndex].resources, t.offering, t.requesting)
           /\ state'.players[a.targetPlayerIndex].resources
                = Swapped(state.players[a.targetPlayerIndex].resources, t.requesting, t.offering)
           /\ state'.pendingTrade = <<>>
           /\ \A i \in Seats(state) \ {a.playerIndex, a.targetPlayerIndex} :
                 state'.players[i] = state.players[i]
           /\ \A r \in RESOURCE_TYPES : TotalOf(state', r) = TotalOf(state, r)
           /\ [state' EXCEPT !.players = state.players, !.pendingTrade = state.pendingTrade]
                = state
           /\ \A i \in {a.playerIndex, a.targetPlayerIndex} :
                 [state'.players[i] EXCEPT !.resources = state.players[i].resources]
                   = state.players[i]

\* C23: tradeConfirm is accepted only from the proposer, only for one target
\* seat whose recorded response is accept, and only if at that moment the
\* proposer holds the offered bundle and the target holds the requested
\* bundle; it then moves the offered bundle to the target and the requested
\* bundle to the proposer, clears the pending trade, changes no third seat,
\* and leaves the total of each resource kind over all players unchanged.
C23_ConfirmSwapsBundles == []ConfirmGuard /\ [][ConfirmStep]_vars

\* the target accepted and then lost what it was asked for: the confirmation
\* is refused
C23_WitnessRecheck ==
    \E a \in InputsOf(state, "tradeConfirm") :
        /\ state.pendingTrade # <<>>
        /\ a.targetPlayerIndex \in DOMAIN Pending(state).responses
        /\ Pending(state).responses[a.targetPlayerIndex] = "accept"
        /\ validateAction(state, a) = "Accepting player no longer has the resources"

\* C23 witness: in a three-seat game the proposer has just confirmed with
\* the seat that accepted, a third seat looking on
C23_Witness ==
    /\ NumPlayers(state) = 3
    /\ update.action.type = "tradeConfirm"
    /\ budget < DraftBudget
    /\ state.pendingTrade = <<>>
    /\ state.players[2].resources = Bundle(0, 0, 0, 1, 1)
    /\ state.players[1].resources = Bundle(1, 1, 0, 0, 0)


\* playedKnights per seat
Knights(s) == [i \in Seats(s) |-> s.players[i].playedKnights]

\* the seats with the greatest count
Leaders(counts) == {i \in DOMAIN counts : \A j \in DOMAIN counts : counts[j] <= counts[i]}

\* the holder of an award after a change of the counts: the only leader, or
\* the previous holder if it is one of several leaders, and nobody if the
\* leaders fall short of the minimum
HolderAfter(counts, minimum, previous) ==
    LET leaders == Leaders(counts) IN
    IF \E i \in leaders : counts[i] < minimum THEN NoPlayer
    ELSE IF Cardinality(leaders) = 1 THEN CHOOSE i \in leaders : TRUE
    ELSE IF previous \in leaders THEN previous
    ELSE NoPlayer

KnightStep ==
    budget' # budget =>
        LET a == update'.action IN
        /\ \A i \in Seats(state) :
              state'.players[i].playedKnights
                = state.players[i].playedKnights
                  + (IF a.type = "playKnight" /\ a.playerIndex = i THEN 1 ELSE 0)
        /\ a.type = "playKnight" =>
              state'.largestArmyPlayer
                = HolderAfter(Knights(state'), LARGEST_ARMY_MINIMUM, state.largestArmyPlayer)

\* C26: playedKnights of a seat increases by exactly 1 with each accepted
\* playKnight of that seat and never otherwise, and after every accepted
\* playKnight the largest-army holder is: the unique seat with the strictly
\* greatest playedKnights if that count is at least 3; the previous holder if
\* several seats tie for the greatest count (at least 3) and the previous
\* holder is one of them; nobody otherwise.
C26_LargestArmy == [][KnightStep]_vars

\* C26 witness: the room accepted a knight that brought its seat level with
\* the holder of the largest army, who keeps it
C26_Witness ==
    /\ update.action.type = "playKnight"
    /\ budget < ArmiesBudget
    /\ state.largestArmyPlayer # NoPlayer
    /\ state.largestArmyPlayer # update.action.playerIndex
    /\ Knights(state)[update.action.playerIndex] = Knights(state)[state.largestArmyPlayer]

\* the room accepted a knight that took the largest army from its holder
C26_WitnessPassed ==
    /\ update.action.type = "playKnight"
    /\ budget < ArmiesBudget
    /\ state.largestArmyPlayer = update.action.playerIndex
    /\ \E j \in Seats(state) \ {update.action.playerIndex} :
          Knights(state)[j] >= LARGEST_ARMY_MINIMUM

\* the room accepted the knight that made its seat the first holder
C26_WitnessFirst ==
    /\ update.action.type = "playKnight"
    /\ budget < ArmiesBudget
    /\ state.largestArmyPlayer = update.action.playerIndex
    /\ \A j \in Seats(state) \ {update.action.playerIndex} :
          Knights(state)[j] < LARGEST_ARMY_MINIMUM


\* the hexes a total of t pays on: they carry the token t, yield a resource
\* and are free of the robber
PayingHexes(s, t) ==
    {h \in Hexes : /\ hexTiles[h].numberToken = t
                   /\ h # s.robberHex
                   /\ hexTiles[h].terrain \in DOMAIN TERRAIN_TO_RESOURCE}

\* what one hex pays to seat i: 1 per settlement and 2 per city on its corners
HexPays(s, h, i) ==
    Cardinality({k \in 1..6 : /\ HasBuilding(s, hexToVertices[h][k])
                              /\ s.vertexBuildings[hexToVertices[h][k]] = Building(Settlement, i)})
    + 2 * Cardinality({k \in 1..6 : /\ HasBuilding(s, hexToVertices[h][k])
                                    /\ s.vertexBuildings[hexToVertices[h][k]] = Building(City, i)})

\* the sum of HexPays over the paying hexes that yield resource r
PaidBy(s, t, i, r) ==
    LET hexes == {h \in PayingHexes(s, t) : TERRAIN_TO_RESOURCE[hexTiles[h].terrain] = r}
    IN SumOver(hexes, [h \in hexes |-> HexPays(s, h, i)])

\* the hands after the pass of produceResources that takes the hexes and the
\* corners of each hex in the given orders
RECURSIVE PayCorners(_, _, _, _)
PayCorners(s, hands, h, corners) ==
    IF corners = <<>> THEN hands
    ELSE LET vk == hexToVertices[h][Head(corners)]
             r == TERRAIN_TO_RESOURCE[hexTiles[h].terrain]
         IN PayCorners(s,
                       IF HasBuilding(s, vk)
                       THEN [hands EXCEPT ![s.vertexBuildings[vk].playerIndex][r] =
                                @ + (IF s.vertexBuildings[vk].type = City THEN 2 ELSE 1)]
                       ELSE hands,
                       h, Tail(corners))

RECURSIVE PayHexes(_, _, _, _, _)
PayHexes(s, t, hands, hexes, corners) ==
    IF hexes = <<>> THEN hands
    ELSE PayHexes(s, t,
                  IF Head(hexes) \in PayingHexes(s, t)
                  THEN PayCorners(s, hands, Head(hexes), corners)
                  ELSE hands,
                  Tail(hexes), corners)

\* the orders tried: every order of the paying hexes, and the corners of a
\* hex forwards, backwards and from the middle
HexOrders(S) == {q \in [1..Cardinality(S) -> S] : \A h \in S : \E k \in DOMAIN q : q[k] = h}
CornerOrders == { <<1, 2, 3, 4, 5, 6>>, <<6, 5, 4, 3, 2, 1>>, <<4, 1, 6, 3, 2, 5>> }

Hands(s) == [i \in Seats(s) |-> s.players[i].resources]

ProductionStep ==
    update'.action.type = "rollDice" /\ budget' # budget /\ RolledTotal(state') # 7 =>
        LET t == RolledTotal(state') IN
        /\ \A i \in Seats(state) : \A r \in RESOURCE_TYPES :
              /\ Hand(state', i)[r] = Hand(state, i)[r] + PaidBy(state, t, i, r)
              /\ Hand(state', i)[r] >= Hand(state, i)[r]
        /\ \A hexes \in HexOrders(PayingHexes(state, t)) : \A corners \in CornerOrders :
              PayHexes(state, t, Hands(state), hexes, corners) = Hands(state')

\* C27: on an accepted roll with total t other than 7, each player's count
\* of each resource increases by exactly the sum, over the hexes whose number
\* token is t and that are not the robber hex, of 1 per settlement and 2 per
\* city that player owns on the hex's six vertices (resource = the resource of
\* the hex terrain); no resource count decreases, and the result is the same
\* for every order in which hexes and players are processed.
C27_Production == [][ProductionStep]_vars

\* C27 witness: the room rolled a total that pays on two hexes, to a city and
\* to a settlement of different seats
C27_Witness ==
    /\ update.action.type = "rollDice"
    /\ budget < NinePointsBudget
    /\ RolledTotal(state) # 7
    /\ Cardinality(PayingHexes(state, RolledTotal(state))) = 2
    /\ \E h1, h2 \in PayingHexes(state, RolledTotal(state)) : \E i, j \in Seats(state) :
          /\ h1 # h2 /\ i # j
          /\ \E k \in 1..6 : HasBuilding(state, hexToVertices[h1][k])
                /\ state.vertexBuildings[hexToVertices[h1][k]] = Building(City, i)
          /\ \E k \in 1..6 : HasBuilding(state, hexToVertices[h2][k])
                /\ state.vertexBuildings[hexToVertices[h2][k]] = Building(Settlement, j)

\* the room rolled the token of a hex on which the robber stands among the
\* buildings of a seat: that hex pays nothing
C27_WitnessRobber ==
    /\ update.action.type = "rollDice"
    /\ RolledTotal(state) # 7
    /\ budget < FrontierBudget
    /\ hexTiles[state.robberHex].numberToken = RolledTotal(state)
    /\ \E k \in 1..6 : HasBuilding(state, hexToVertices[state.robberHex][k])

(***************************************************************************)
(* C28, C29: getLegalActions against validateAction                        *)
(***************************************************************************)
\* the listed actions of a seat that validateAction refuses
Unsound(s, playerIndex) ==
    { a \in getLegalActions(s, playerIndex) : validateAction(s, a) # NoError }

\* every listed action is accepted, in the phases other than Discard
SoundOutsideDiscard ==
    state.phase # "discard" => \A p \in Seats(state) : Unsound(state, p) = {}

\* C28: in every reachable state, every action that getLegalActions
\* returns for a seat is accepted by validateAction in that state
C28_LegalActionsAccepted ==
    \A p \in Seats(state) : Unsound(state, p) = {}

\* the kinds of action validateAction accepts from a seat, among the bounded
\* inputs, and the kinds getLegalActions lists for it
KindsAccepted(s, playerIndex) ==
    { a.type : a \in { b \in ActionInputs(s) :
                           b.playerIndex = playerIndex /\ validateAction(s, b) = NoError } }

KindsListed(s, playerIndex) == { a.type : a \in getLegalActions(s, playerIndex) }

Unlisted(s, playerIndex) == KindsAccepted(s, playerIndex) \ KindsListed(s, playerIndex)

\* what is missing from the list: peer-trade actions of the current player,
\* a repeated response to a pending trade, and, while a trade is pending in
\* Main, everything its proposer may do
UnlistedKindsAreTradeRelated ==
    \A p \in Seats(state) :
        IF state.phase = "main" /\ state.pendingTrade # <<>>
        THEN \/ p = Pending(state).fromPlayer
             \/ Unlisted(state, p) \subseteq {"tradeAccept", "tradeReject"}
        ELSE Unlisted(state, p) \subseteq {"tradeOffer"}

\* C29: in every reachable state, every kind of action validateAction accepts
\* from a seat is among the kinds getLegalActions returns for that seat, so
\* the list is empty only when nothing from that seat would be accepted
C29_AcceptedKindsListed ==
    \A p \in Seats(state) : Unlisted(state, p) = {}

(***************************************************************************)
(* C30: the bot's choice                                                   *)
(***************************************************************************)
\* the seats expected to act whose strategy returns null or an action that
\* validateAction refuses
Stuck(s) ==
    { p \in Seats(s) :
        /\ shouldAct(s, p)
        /\ \/ chooseAction(s, p) = {}
           \/ \E a \in chooseAction(s, p) : validateAction(s, a) # NoError }

\* C30: in every reachable state, a seat for which shouldAct holds gets from
\* chooseAction an action (not null) that validateAction accepts
C30_BotChoiceAccepted == Stuck(state) = {}

\* the only stuck seat found: the current player in Main, out of city pieces,
\* whose strategy answers buildCity
StuckOnlyWithoutCityPieces ==
    \A p \in Stuck(state) :
        /\ state.phase = "main" /\ p = state.currentPlayerIndex
        /\ state.players[p].cities = 0
        /\ \A a \in chooseAction(state, p) : a.type = "buildCity"

(***************************************************************************)
(* C24: the holder of the longest road                                     *)
(***************************************************************************)
\* calculateLongestRoad per seat
RoadLengths(s) == [i \in Seats(s) |-> calculateLongestRoad(s, i)]

\* an accepted buildRoad or buildSettlement leaves the holder the rule names,
\* and any other accepted action leaves the holder alone
LongestRoadStep ==
    budget' # budget =>
        IF update'.action.type \in {"buildRoad", "buildSettlement"}
        THEN state'.longestRoadPlayer
               = HolderAfter(RoadLengths(state'), LONGEST_ROAD_MINIMUM, state.longestRoadPlayer)
        ELSE state'.longestRoadPlayer = state.longestRoadPlayer

\* a holder has a road of longestRoadLength, at least the minimum, and no
\* seat has a longer one; without a holder the length is 0
HolderHasLongestRoad ==
    IF state.longestRoadPlayer = NoPlayer THEN state.longestRoadLength = 0
    ELSE /\ state.longestRoadPlayer \in Seats(state)
         /\ RoadLengths(state)[state.longestRoadPlayer] = state.longestRoadLength
         /\ state.longestRoadLength >= LONGEST_ROAD_MINIMUM
         /\ \A i \in Seats(state) : RoadLengths(state)[i] <= state.longestRoadLength

\* C24: after every accepted buildRoad and buildSettlement the longest-road
\* holder is the only seat with the greatest road length if that length is at
\* least 5, the previous holder if several seats share the greatest length (at
\* least 5) and the previous holder is one of them, and nobody otherwise; so
\* in every reachable state a holder has a road of length longestRoadLength
\* >= 5 and no seat has a longer road.
C24_LongestRoadHolder == []HolderHasLongestRoad /\ [][LongestRoadStep]_vars

\* C24 witness: the room accepted a road that brought its seat level with the
\* holder of the longest road, who keeps it
C24_Witness ==
    /\ update.action.type = "buildRoad"
    /\ budget < RaceBudget
    /\ state.longestRoadPlayer # NoPlayer
    /\ state.longestRoadPlayer # update.action.playerIndex
    /\ RoadLengths(state)[update.action.playerIndex] = state.longestRoadLength

\* the room accepted a settlement on the road of the holder, and the two
\* other seats share the greatest length: nobody holds the longest road
C24_WitnessCut ==
    /\ update.action.type = "buildSettlement"
    /\ budget < RaceBudget
    /\ state.longestRoadPlayer = NoPlayer
    /\ Cardinality({i \in Seats(state) : RoadLengths(state)[i] >= LONGEST_ROAD_MINIMUM}) = 2

\* the room accepted a road that made its seat the only one with the
\* greatest length, over the head of the holder
C24_WitnessPassed ==
    /\ update.action.type = "buildRoad"
    /\ budget < RaceBudget
    /\ state.longestRoadPlayer = update.action.playerIndex
    /\ \E j \in Seats(state) \ {update.action.playerIndex} :
          RoadLengths(state)[j] >= LONGEST_ROAD_MINIMUM

\* the room accepted the road that gave the longest road its first holder
C24_WitnessFirst ==
    /\ update.action.type = "buildRoad"
    /\ budget < RaceBudget
    /\ state.longestRoadPlayer = update.action.playerIndex
    /\ \A j \in Seats(state) \ {update.action.playerIndex} :
          RoadLengths(state)[j] < LONGEST_ROAD_MINIMUM

(***************************************************************************)
(* C25: calculateLongestRoad as a function of the roads and buildings.     *)
(* A survey takes a board on which the roads around the field <<0, 0>> are *)
(* laid out in every possible way, with or without a settlement on one of  *)
(* the corners, and measures the roads of both seats.                      *)
(***************************************************************************)
RingEdges == Range(hexEdges(<<0, 0>>))
SpokeEdges == { <<0, -1, "E">>, <<0, 1, "NE">>, <<-1, 1, "E">> }
SurveyEdges == RingEdges \cup SpokeEdges
SurveyCorners == { VA, <<1, -1, "S">>, VB, <<0, 0, "S">> }
SurveyBudget == 1

\* the board with the roads of own for seat 0, those of others for seat 1,
\* and a settlement of each seat of owners on corner
Layout(own, others, corner, owners) ==
    [initializeGame(2) EXCEPT
        !.phase = "main",
        !.edgeRoads = [e \in own \cup others |->
                          [playerIndex |-> IF e \in own THEN 0 ELSE 1]],
        !.vertexBuildings = [v \in {corner : p \in owners} |->
                                Building(Settlement, CHOOSE p \in owners : TRUE)],
        !.players = [i \in 0..1 |->
                        [createPlayer EXCEPT
                            !.roads = INITIAL_ROADS
                                        - Cardinality(IF i = 0 THEN own ELSE others),
                            !.settlements = INITIAL_SETTLEMENTS
                                              - (IF i \in owners THEN 1 ELSE 0)]]]

SurveyInit ==
    \E own \in SUBSET SurveyEdges, rest \in BOOLEAN, corner \in SurveyCorners,
       owners \in {{}, {0}, {1}} :
        /\ state = Layout(own, IF rest THEN SurveyEdges \ own ELSE {}, corner, owners)
        /\ update = NoUpdate
        /\ played = NothingPlayed
        /\ turn = NewTurn(state)
        /\ budget = SurveyBudget
        /\ controller = NoController

\* the measurement as the engine takes it: updateLongestRoad over the board
Survey ==
    /\ budget > 0
    /\ state' = updateLongestRoad(state)
    /\ budget' = budget - 1
    /\ UNCHANGED <<update, played, turn, controller>>

SurveyNext == Survey

SurveySpec == SurveyInit /\ [][SurveyNext]_vars

\* the paths along roads of seat p that use no road twice and do not continue
\* through a corner held by another seat, each kept as the set of its roads
\* and the corner it has come to
RoadsOf(s, p) == { ek \in DOMAIN s.edgeRoads : s.edgeRoads[ek].playerIndex = p }

HeldByOther(s, vk, p) ==
    vk \in DOMAIN s.vertexBuildings /\ s.vertexBuildings[vk].playerIndex # p

OneRoadPaths(s, p) ==
    { [roads |-> {ek}, at |-> edgeToVertices[ek][k]] : ek \in RoadsOf(s, p), k \in {1, 2} }

OneRoadLonger(s, p, paths) ==
    UNION { { [roads |-> w.roads \cup {ek},
               at |-> CHOOSE vk \in Range(edgeToVertices[ek]) : vk # w.at] :
              ek \in { e \in RoadsOf(s, p) \ w.roads : w.at \in Range(edgeToVertices[e]) } } :
            w \in { x \in paths : ~HeldByOther(s, x.at, p) } }

\* the number of roads of the longest path that extends one of paths, which
\* have n roads each
RECURSIVE LongestFrom(_, _, _, _)
LongestFrom(s, p, paths, n) ==
    IF OneRoadLonger(s, p, paths) = {} THEN n
    ELSE LongestFrom(s, p, OneRoadLonger(s, p, paths), n + 1)

LongestPath(s, p) ==
    IF RoadsOf(s, p) = {} THEN 0 ELSE LongestFrom(s, p, OneRoadPaths(s, p), 1)

\* C25: for every seat, calculateLongestRoad is the number of roads of the
\* longest path along the seat's own roads that uses no road twice and does
\* not continue through a corner on which another seat has built (it may
\* start or end there); it is 0 for a seat without roads, and the roads of
\* the other seats do not count.
C25_LongestRoadIsLongestPath ==
    \A p \in Seats(state) :
        /\ calculateLongestRoad(state, p) = LongestPath(state, p)
        /\ RoadsOf(state, p) = {} => calculateLongestRoad(state, p) = 0
        /\ calculateLongestRoad(state, p) <= Cardinality(RoadsOf(state, p))

\* surveyed: seat 0's chain of three roads with seat 1's settlement on an
\* interior corner measures 2
C25_Witness ==
    /\ budget = 0
    /\ RoadsOf(state, 0) = { <<0, 0, "NE">>, <<0, 0, "E">>, <<0, 0, "SE">> }
    /\ \E vk \in { <<1, -1, "S">>, VB } :
          /\ vk \in DOMAIN state.vertexBuildings
          /\ state.vertexBuildings[vk].playerIndex = 1
    /\ calculateLongestRoad(state, 0) = 2

\* surveyed: the closed ring of six roads measures 6 and takes the award,
\* while seat 1's three roads beside it do not add to it
C25_WitnessRing ==
    /\ budget = 0
    /\ RoadsOf(state, 0) = RingEdges
    /\ RoadsOf(state, 1) = SpokeEdges
    /\ calculateLongestRoad(state, 0) = 6
    /\ state.longestRoadPlayer = 0
    /\ state.longestRoadLength = 6

\* surveyed: the same chain of three with the settlement at its end still
\* measures 3
C25_WitnessEnd ==
    /\ budget = 0
    /\ RoadsOf(state, 0) = { <<0, 0, "NE">>, <<0, 0, "E">>, <<0, 0, "SE">> }
    /\ VA \in DOMAIN state.vertexBuildings
    /\ state.vertexBuildings[VA].playerIndex = 1
    /\ calculateLongestRoad(state, 0) = 3

(***************************************************************************)
(* C40: piece inventories match the board.                                 *)
(***************************************************************************)
RoadsOnBoard(s, playerIndex) ==
    Cardinality({ek \in DOMAIN s.edgeRoads : s.edgeRoads[ek].playerIndex = playerIndex})

\* C40: for every seat in every reachable state, settlements on the board
\* plus settlement pieces in hand are 5, cities on the board plus city pieces
\* in hand are 4, roads on the board plus road pieces in hand are 15, and no
\* piece counter is negative.
C40_PiecesMatchBoard ==
    \A i \in Seats(state) :
        LET player == state.players[i] IN
        /\ Cardinality(BuildingsOf(state, i, Settlement)) + player.settlements
             = INITIAL_SETTLEMENTS
        /\ Cardinality(BuildingsOf(state, i, City)) + player.cities = INITIAL_CITIES
        /\ RoadsOnBoard(state, i) + player.roads = INITIAL_ROADS
        /\ player.settlements >= 0
        /\ player.cities >= 0
        /\ player.roads >= 0

\* a seat has just built its fourth city: no city piece is left in its
\* supply, four cities are on the board, and roads of its own are laid
C40_Witness ==
    /\ update.action.type = "buildCity"
    /\ state.players[update.action.playerIndex].cities = 0
    /\ Cardinality(BuildingsOf(state, update.action.playerIndex, City)) = INITIAL_CITIES
    /\ state.players[update.action.playerIndex].roads < INITIAL_ROADS

(***************************************************************************)
(* C31: BotController.tick and the game-action handler.                    *)
(* The controller's loop is suspended only in `await bot.chooseAction`:    *)
(* the steps of the model are the handler of a human's game-action and the *)
(* continuation of the loop when the awaited bot answers.  The strategy is *)
(* asked about the state the loop read before the delay (seen), while      *)
(* processAction works on the room's state at the time of the answer.      *)
(***************************************************************************)
MAX_ITERATIONS == 200

\* no loop running
Idle(bots) == [running |-> FALSE, bots |-> bots, waiting |-> 0, seen |-> <<>>, safety |-> 0]

\* the loop suspended in the chooseAction of bots[k], having read s
Thinking(bots, k, s, safety) ==
    [running |-> TRUE, bots |-> bots, waiting |-> k, seen |-> s, safety |-> safety]

\* the first bot from position from on, in the order of the list, for which
\* shouldAct holds in s (0: none)
FirstDue(s, bots, from) ==
    LET due == { k \in from..Len(bots) : shouldAct(s, bots[k]) }
    IN IF due = {} THEN 0 ELSE CHOOSE k \in due : \A j \in due : k <= j

\* the head of the while loop after safety iterations, the room holding s
LoopTop(bots, s, safety) ==
    IF safety >= MAX_ITERATIONS THEN Idle(bots)
    ELSE IF s.phase = "gameOver" THEN Idle(bots)
    ELSE IF FirstDue(s, bots, 1) = 0 THEN Idle(bots)
    ELSE Thinking(bots, FirstDue(s, bots, 1), s, safety + 1)

\* tick(): nothing while a loop is running
tick(c, s) == IF c.running THEN c ELSE LoopTop(c.bots, s, 0)

\* the for loop going on after bots[c.waiting] did not act: the bots behind
\* it are asked about the state read at the head of the loop
NextBot(c) ==
    IF FirstDue(c.seen, c.bots, c.waiting + 1) = 0 THEN Idle(c.bots)
    ELSE [c EXCEPT !.waiting = FirstDue(c.seen, c.bots, c.waiting + 1)]

Null == [type |-> "none", playerIndex |-> NoPlayer]

\* what the awaited chooseAction can resolve to
Answers(c) ==
    IF chooseAction(c.seen, c.bots[c.waiting]) = {} THEN {Null}
    ELSE chooseAction(c.seen, c.bots[c.waiting])

\* game-action: a human's action is processed and, if accepted, tick() called
GameAction ==
    \E a \in ActionInputs(state) :
        /\ a.playerIndex \notin Range(controller.bots)
        /\ budget > 0
        /\ \E rnd \in RandomOutcomes(state, a) :
              /\ advance(a, applyAction(state, a, rnd))
              /\ controller' = tick(controller, applyAction(state, a, rnd).state)

\* the awaited bot answers with an action the room accepts: the loop starts
\* over on the new state
BotActs ==
    /\ controller.running
    /\ budget > 0
    /\ \E a \in Answers(controller) \ {Null} :
          \E rnd \in RandomOutcomes(state, a) :
              /\ advance(a, applyAction(state, a, rnd))
              /\ controller' = LoopTop(controller.bots, applyAction(state, a, rnd).state,
                                       controller.safety)

\* the awaited bot answers null or with an action the room refuses
BotDoesNotAct ==
    /\ controller.running
    /\ \E a \in Answers(controller) :
          a # Null => validateAction(state, a) # NoError
    /\ controller' = NextBot(controller)
    /\ UNCHANGED <<state, update, played, turn, budget>>

\* a session of a room with bots: the humans' actions as submitted, and for
\* each answer of the awaited bot (action Null) the outcome of the generators
BotAnswers(rnd) == [action |-> Null, rnd |-> rnd]
BotAnswer == BotAnswers(NoRandom)

\* the awaited bot's answer a, processed as tick() does
BotStep(pos, c, a, rnd) ==
    IF a = Null \/ validateAction(pos.state, a) # NoError
    THEN [pos |-> pos, c |-> NextBot(c)]
    ELSE [pos |-> ReplayStep(pos, [action |-> a, rnd |-> rnd]),
          c |-> LoopTop(c.bots, applyAction(pos.state, a, rnd).state, c.safety)]

\* a human's action, processed as the game-action handler does
HumanStep(pos, c, step) ==
    IF step.action.playerIndex \in Range(c.bots)
    THEN [pos |-> [pos EXCEPT !.accepted = FALSE], c |-> c]
    ELSE [pos |-> ReplayStep(pos, step),
          c |-> IF validateAction(pos.state, step.action) = NoError
                THEN tick(c, applyAction(pos.state, step.action, step.rnd).state)
                ELSE c]

SessionStep(pos, c, step) ==
    IF step.action # Null THEN HumanStep(pos, c, step)
    ELSE IF ~c.running THEN [pos |-> [pos EXCEPT !.accepted = FALSE], c |-> c]
    ELSE CHOOSE r \in { BotStep(pos, c, a, step.rnd) :
                            a \in {CHOOSE x \in Answers(c) : TRUE} } : TRUE

RECURSIVE Session(_, _, _)
Session(pos, c, script) ==
    IF script = <<>> \/ ~pos.accepted THEN [pos |-> pos, c |-> c]
    ELSE CHOOSE r \in { Session(at.pos, at.c, Tail(script)) :
                            at \in {SessionStep(pos, c, Head(script))} } : TRUE

\* join-game: the controller is created for the new game and ticked once
Joined(n, bots, script) ==
    Session(NewGame(n), tick(Idle(bots), initializeGame(n)), script)

\* seat 0 a human, seat 1 a bot: the draft and the human's first roll
HumanFirst ==
    << Settle(0, VA), Pave(0, <<0, 0, "NE">>),
       BotAnswer, BotAnswer, BotAnswer, BotAnswer,
       Settle(0, VD), Pave(0, <<-1, 1, "NE">>), Roll(0, Roll6) >>

HumanBudget == 4
BotsBudget == 4
Sessions ==
    { [at |-> Joined(2, <<1>>, HumanFirst), budget |-> HumanBudget] }
    \cup { [at |-> Joined(g[1], g[2], <<>>), budget |-> BotsBudget] :
               g \in { <<2, <<0>> >>, <<3, <<1, 2>> >>, <<3, <<0, 2>> >> } }

TickInit ==
    \E g \in Sessions :
        /\ g.at.pos.accepted
        /\ state = g.at.pos.state
        /\ update = g.at.pos.update
        /\ played = g.at.pos.played
        /\ turn = g.at.pos.turn
        /\ budget = g.budget
        /\ controller = g.at.c

TickNext ==
    \/ GameAction
    \/ BotActs
    \/ BotDoesNotAct

TickSpec == TickInit /\ [][TickNext]_vars

\* C31: whenever no tick loop is running, the game is over or shouldAct
\* holds for no bot in the room's state
C31_NoBotLeftWaiting ==
    ~controller.running =>
        \/ state.phase = "gameOver"
        \/ \A k \in 1..Len(controller.bots) : ~shouldAct(state, controller.bots[k])

(***************************************************************************)
(* C32: a game played by the bot strategy on every seat.                   *)
(* The simulation asks the strategy for the seat that is due (a seat that  *)
(* has to discard, else the current player) and applies the answer.        *)
(***************************************************************************)
\* the seat the simulation asks next
DueSeats(s) ==
    IF s.phase = "gameOver" THEN {}
    ELSE IF s.phase = "discard"
    THEN { p \in Seats(s) : p \in s.playersNeedingToDiscard
                            /\ \A q \in s.playersNeedingToDiscard : p <= q }
    ELSE { s.currentPlayerIndex }

\* one action of the simulation: the strategy's answer for the due seat,
\* applied through applyAction
BotMove ==
    /\ budget > 0
    /\ \E p \in DueSeats(state) :
          \E a \in chooseAction(state, p) :
              \E rnd \in RandomOutcomes(state, a) :
                  accept(a, applyAction(state, a, rnd))

\* a game of the simulation with the dice as listed: the strategy's answer
\* for the due seat is applied until the game is over, an answer is refused
\* or missing, or the next roll is not listed
SimulationRandom(s, a, dice) ==
    IF a.type = "rollDice" THEN [dice |-> Head(dice), stolenResource |-> "wood"]
    ELSE CHOOSE rnd \in RandomOutcomes(s, a) : TRUE

\* the strategy's answer for the seat that is due (Null: none)
Proposal(s) ==
    LET p == CHOOSE x \in DueSeats(s) : TRUE
    IN IF chooseAction(s, p) = {} THEN Null ELSE CHOOSE x \in chooseAction(s, p) : TRUE

RECURSIVE Simulated(_, _)
Proposed(pos, dice, a) ==
    IF a = Null THEN pos
    ELSE IF validateAction(pos.state, a) # NoError THEN pos
    ELSE IF a.type = "rollDice" /\ dice = <<>> THEN pos
    ELSE Simulated(ReplayStep(pos, [action |-> a,
                                    rnd |-> SimulationRandom(pos.state, a, dice)]),
                   IF a.type = "rollDice" THEN Tail(dice) ELSE dice)

Simulated(pos, dice) ==
    IF DueSeats(pos.state) = {} THEN pos
    ELSE CHOOSE r \in { Proposed(pos, dice, a) : a \in {Proposal(pos.state)} } : TRUE

\* two dice showing the total n
Thrown(n) == <<n \div 2, n - (n \div 2)>>

\* the totals rolled in the game of two bots that the second start continues
RecordedTotals ==
    << 3, 2, 2, 9, 9, 5, 5, 3, 3, 9,
       9, 9, 9, 9, 9, 9, 9, 9, 9, 9,
       9, 9, 9, 9, 9, 9, 9, 9, 4, 8,
       2, 9, 10, 2, 2, 8, 9, 9, 9, 9,
       9, 2, 9, 2, 9, 2, 4, 8, 9 >>

RecordedDice == [i \in 1..Len(RecordedTotals) |-> Thrown(RecordedTotals[i])]

\* the same game, simulated a few rolls at a time
LegLength == 5

RECURSIVE SimulatedInLegs(_, _)
SimulatedInLegs(pos, dice) ==
    IF Len(dice) <= LegLength THEN Simulated(pos, dice)
    ELSE SimulatedInLegs(Simulated(pos, SubSeq(dice, 1, LegLength)),
                         SubSeq(dice, LegLength + 1, Len(dice)))

SimulationBudget == 12
RecordedBudget == 6

\* the simulation starts from a new game, or continues the recorded one
SimulationStarts(n) ==
    { [at |-> NewGame(n), budget |-> SimulationBudget],
      [at |-> SimulatedInLegs(NewGame(n), RecordedDice), budget |-> RecordedBudget] }

SimulationInit ==
    \E g \in SimulationStarts(2) :
        /\ state = g.at.state
        /\ update = g.at.update
        /\ played = g.at.played
        /\ turn = g.at.turn
        /\ budget = g.budget
        /\ controller = NoController

SimulationNext == BotMove

SimulationSpec == SimulationInit /\ [][SimulationNext]_vars

ServerState(s, seed) ==
    [f \in DOMAIN s \cup {"randomSeed", "hexTiles", "ports"} |->
        IF f = "randomSeed" THEN seed
        ELSE IF f = "hexTiles" THEN hexTiles
        ELSE IF f = "ports" THEN ports
        ELSE s[f]]

\* getClientState showing every seat's cards
getClientStateOpenHands(gs, requestingPlayerIndex) ==
    LET clientPlayers ==
            [index \in DOMAIN gs.players |->
                LET player == gs.players[index]
                IN [resources |-> player.resources,
                    playedKnights |-> player.playedKnights,
                    hasPlayedDevCardThisTurn |-> player.hasPlayedDevCardThisTurn,
                    settlements |-> player.settlements,
                    cities |-> player.cities,
                    roads |-> player.roads,
                    ports |-> player.ports,
                    developmentCardCount |->
                        Len(player.developmentCards) + Len(player.newDevCards),
                    developmentCards |-> player.developmentCards,
                    newDevCards |-> player.newDevCards]]
        rest == (DOMAIN gs) \ {"devCardDeck", "randomSeed", "players"}
    IN [f \in rest \cup {"players", "devCardDeckSize"} |->
           IF f = "players" THEN clientPlayers
           ELSE IF f = "devCardDeckSize" THEN Len(gs.devCardDeck)
           ELSE gs[f]]

\* requestingPlayerIndex: the seat of playerId, NoPlayer for an unknown id
getClientState(gs, requestingPlayerIndex) ==
    LET clientPlayers ==
            [index \in DOMAIN gs.players |->
                LET player == gs.players[index]
                    isRequestingPlayer == index = requestingPlayerIndex
                IN [resources |-> player.resources,
                    playedKnights |-> player.playedKnights,
                    hasPlayedDevCardThisTurn |-> player.hasPlayedDevCardThisTurn,
                    settlements |-> player.settlements,
                    cities |-> player.cities,
                    roads |-> player.roads,
                    ports |-> player.ports,
                    developmentCardCount |->
                        Len(player.developmentCards) + Len(player.newDevCards),
                    developmentCards |->
                        IF isRequestingPlayer THEN player.developmentCards ELSE <<>>,
                    newDevCards |->
                        IF isRequestingPlayer THEN player.newDevCards ELSE <<>>]]
        rest == (DOMAIN gs) \ {"devCardDeck", "randomSeed", "players"}
    IN [f \in rest \cup {"players", "devCardDeckSize"} |->
           IF f = "players" THEN clientPlayers
           ELSE IF f = "devCardDeckSize" THEN Len(gs.devCardDeck)
           ELSE gs[f]]

\* states that differ from gs only in what is hidden from seat p: the deck
\* in another order, another seed, other kinds of cards in the other hands
Reversed(seq) == [i \in 1..Len(seq) |-> seq[Len(seq) + 1 - i]]
Recast(seq, kind) == [i \in 1..Len(seq) |-> kind]
Rotated(seq) == IF seq = <<>> THEN seq ELSE Append(Tail(seq), Head(seq))

OtherSeeds == { randomSeed, randomSeed + 1 }

HiddenVariants(gs, p) ==
    { [gs EXCEPT
         !.devCardDeck = deck,
         !.randomSeed = seed,
         !.players = [i \in DOMAIN gs.players |->
                         IF i = p \/ kind = "" THEN gs.players[i]
                         ELSE [gs.players[i] EXCEPT
                                 !.developmentCards = Recast(@, kind),
                                 !.newDevCards = Recast(@, kind)]]] :
        deck \in { gs.devCardDeck, Reversed(gs.devCardDeck), Rotated(gs.devCardDeck) },
        seed \in OtherSeeds,
        kind \in { "", "knight", "victoryPoint" } }

Viewers(s) == Seats(s) \cup {NoPlayer}

\* C33: the view for a seat holds the deck only as its size, holds no seed,
\* and shows the cards of every other seat only as a count; states that
\* differ only in the order of the deck, the seed or the kinds of the other
\* seats' cards give the seat the same view.
C33_ViewHidesDeckSeedAndCards ==
    \A p \in Viewers(state) :
        LET gs == ServerState(state, randomSeed)
            view == getClientState(gs, p)
        IN /\ "devCardDeck" \notin DOMAIN view
           /\ "randomSeed" \notin DOMAIN view
           /\ view.devCardDeckSize = Len(state.devCardDeck)
           /\ \A i \in Seats(state) \ {p} :
                 /\ view.players[i].developmentCards = <<>>
                 /\ view.players[i].newDevCards = <<>>
                 /\ view.players[i].developmentCardCount
                      = Len(state.players[i].developmentCards)
                        + Len(state.players[i].newDevCards)
           /\ p \in Seats(state) =>
                 /\ view.players[p].developmentCards = state.players[p].developmentCards
                 /\ view.players[p].newDevCards = state.players[p].newDevCards
           /\ \A v \in HiddenVariants(gs, p) : getClientState(v, p) = view

\* a seat other than the viewer holds a card, and a state with that card
\* recast and the deck reversed differs from the room's state
C33_Witness ==
    \E p \in Seats(state) :
        /\ \E i \in Seats(state) \ {p} :
              /\ state.players[i].newDevCards # <<>>
              /\ Recast(state.players[i].newDevCards, "knight") # state.players[i].newDevCards
        /\ Reversed(state.devCardDeck) # state.devCardDeck
        /\ \E v \in HiddenVariants(ServerState(state, randomSeed), p) :
              /\ v.devCardDeck # state.devCardDeck
              /\ v.players # state.players

(***************************************************************************)
(* C38: GameRoom.broadcastStateUpdate, what a seat is sent for an action.  *)
(***************************************************************************)
\* the GameState of the engine within the room's state
EngineState(gs) == [f \in (DOMAIN gs) \ {"randomSeed", "hexTiles", "ports"} |-> gs[f]]

\* the state-update emitted to the socket of seat p
StateUpdate(gs, action, events, p) ==
    [state |-> getClientState(gs, p), events |-> events, action |-> action]

\* the same action with the same outcome of the generators, processed in a
\* state that differs for seat p only in hidden values, sends p the same
StepHidesCards ==
    budget' # budget =>
        \A p \in Seats(state) :
            \A v \in HiddenVariants(ServerState(state, randomSeed), p) :
                \A rnd \in RandomOutcomes(state, update'.action) :
                    LET result == applyAction(state, update'.action, rnd)
                        other == applyAction(EngineState(v), update'.action, rnd)
                    IN (result.valid /\ result.state = state' /\ other.valid) =>
                          StateUpdate(ServerState(other.state, v.randomSeed),
                                      update'.action, other.events, p)
                          = StateUpdate(ServerState(state', randomSeed),
                                        update'.action, update'.events, p)

\* C38: what a seat receives after an action (its view of the state, the
\* events and the action) does not depend on the kinds of the cards bought
\* or held by other seats, nor on the order of the remaining deck.
C38_UpdatesHideCards == [][StepHidesCards]_vars

(***************************************************************************)
(* C34: the engine as a function of state and action.  rollDice and        *)
(* stealResource seed their generator with randomSeed, turnNumber and      *)
(* Date.now(); the clock is neither in the state nor in the action, so the *)
(* generator's outcome is an input of its own (RandomOutcomes).            *)
(***************************************************************************)
\* the action just accepted has one result, whatever the generator yields
StepIsDeterministic ==
    budget' # budget =>
        \A r1, r2 \in RandomOutcomes(state, update'.action) :
            LET one == applyAction(state, update'.action, r1)
                two == applyAction(state, update'.action, r2)
            IN /\ one.state = two.state
               /\ one.events = two.events

\* C34: applying the same action to the same state always yields the same
\* successor state and the same events, for every action type including
\* rollDice (same dice) and stealResource (same stolen resource)
C34_EngineIsDeterministic == [][StepIsDeterministic]_vars

(***************************************************************************)
(* C35, C36: the BoardGraph that buildBoardGraph puts into every game.     *)
(***************************************************************************)
\* the edges and hexes of the graph agree with the adjacency of its vertices
EdgesAndHexesAgree ==
    /\ \A a, b \in Vertices :
          (b \in vertexToVertices[a])
            <=> (\E e \in vertexToEdges[a] : Range(edgeToVertices[e]) = {a, b})
    /\ \A a, b \in Vertices :
          (b \in vertexToVertices[a])
            <=> (\E e \in Edges : Range(edgeToVertices[e]) = {a, b} /\ a # b)
    /\ \A v \in Vertices : \A e \in Edges :
          (e \in vertexToEdges[v]) <=> (v \in Range(edgeToVertices[e]))
    /\ \A h \in Hexes : \A v \in Vertices :
          (v \in Range(hexToVertices[h])) <=> (h \in vertexToHexes[v])

\* C35: in the BoardGraph of the game (its vertices include every corner a
\* building stands on) vertex A lists B as adjacent iff B lists A, and iff
\* some edge has exactly the endpoints A and B; an edge is among a vertex's
\* adjacent edges iff the vertex is one of its two endpoints; a hex lists a
\* vertex iff the vertex lists the hex
C35_AdjacencyIsConsistent ==
    /\ \A a \in Vertices \cup DOMAIN state.vertexBuildings :
          \A b \in Vertices :
              (b \in vertexToVertices[a]) <=> (a \in vertexToVertices[b])
    /\ EdgesAndHexesAgree

\* a road of the game lies between two corners that list each other, one of
\* them on the coast with two neighbours, and a building stands on a corner
\* that three hexes list
C35_Witness ==
    /\ \E e \in DOMAIN state.edgeRoads :
          LET a == edgeToVertices[e][1]
              b == edgeToVertices[e][2]
          IN /\ b \in vertexToVertices[a] /\ a \in vertexToVertices[b]
             /\ e \in vertexToEdges[a] \cap vertexToEdges[b]
             /\ \/ Cardinality(vertexToVertices[a]) = 2
                \/ Cardinality(vertexToVertices[b]) = 2
    /\ \E v \in DOMAIN state.vertexBuildings :
          /\ Cardinality(vertexToHexes[v]) = 3
          /\ \A h \in vertexToHexes[v] : v \in Range(hexToVertices[h])

\* what the graph lists for a hex, an edge and a vertex
ListsOfGraph ==
    /\ \A h \in Hexes :
          /\ Len(hexToVertices[h]) = 6
          /\ Cardinality(Range(hexToVertices[h])) = 6
    /\ \A e \in Edges :
          /\ Len(edgeToVertices[e]) = 2
          /\ edgeToVertices[e][1] # edgeToVertices[e][2]
    /\ \A v \in Vertices :
          /\ Cardinality(vertexToHexes[v]) \in 1..3
          /\ Cardinality(vertexToVertices[v]) \in 2..3
          /\ Cardinality(vertexToEdges[v]) \in 2..3

\* C36: the radius-2 island of the game has 19 hexes, 54 vertices and 72
\* edges (the robber's hex, the corners with buildings and the edges with
\* roads among them); a hex lists six distinct vertices, an edge has two
\* distinct endpoints, and a vertex has 1 to 3 adjacent hexes, 2 to 3
\* adjacent vertices and 2 to 3 adjacent edges
C36_BoardCounts ==
    /\ Cardinality(Hexes \cup {state.robberHex}) = 19
    /\ Cardinality(Vertices \cup DOMAIN state.vertexBuildings) = 54
    /\ Cardinality(Edges \cup DOMAIN state.edgeRoads) = 72
    /\ ListsOfGraph

\* the game has built on a corner of one hex and on a corner of three, and
\* laid a road on the coast
C36_Witness ==
    /\ \E v \in DOMAIN state.vertexBuildings : Cardinality(vertexToHexes[v]) = 3
    /\ \E v \in DOMAIN state.vertexBuildings :
          /\ Cardinality(vertexToHexes[v]) < 3
          /\ Cardinality(vertexToVertices[v]) \in 2..3
    /\ \E e \in DOMAIN state.edgeRoads :
          \E h \in Hexes : e \in Range(hexEdges(h))

(***************************************************************************)
(* C37: the game always has a next action.                                 *)
(***************************************************************************)
\* every payload on the board a seat can submit: a corner, an edge, a hex
BoardInputs(s) ==
    LET P == Seats(s) IN
    {[type |-> t, playerIndex |-> p, vertexKey |-> v] :
        t \in {"setupPlaceSettlement", "buildSettlement", "buildCity"},
        p \in P, v \in Vertices}
    \cup {[type |-> t, playerIndex |-> p, edgeKey |-> e] :
            t \in {"setupPlaceRoad", "buildRoad"}, p \in P, e \in Edges}
    \cup {[type |-> "moveRobber", playerIndex |-> p, hex |-> h] : p \in P, h \in Hexes}

\* C37: in every reachable state whose phase is not GameOver, validateAction
\* accepts at least one action of some seat
C37_NeverStuck ==
    state.phase # "gameOver" =>
        \/ \E a \in ActionInputs(state) : validateAction(state, a) = NoError
        \/ \E a \in BoardInputs(state) : validateAction(state, a) = NoError

(***************************************************************************)
(* C39: who wins, and by whose action.                                     *)
(***************************************************************************)
\* the seats with ten or more victory points
AtTen(s) == { p \in Seats(s) : calculateVictoryPoints(s, p) >= VICTORY_POINTS_TO_WIN }

\* an accepted action that ends the game makes its own seat, the current
\* player, the winner; no accepted action leaves two seats at ten points
StepWinnerActed ==
    budget' # budget =>
        /\ (state.phase # "gameOver" /\ state'.phase = "gameOver") =>
              /\ state'.winner = update'.action.playerIndex
              /\ state'.winner = state.currentPlayerIndex
        /\ Cardinality(AtTen(state')) <= 1

\* C39: whenever an action ends the game, the winner is the seat that
\* performed the action, which is the current player; no seat is declared
\* winner by another seat's action, and no action leaves two seats with ten
\* or more victory points
C39_WinnerIsActingSeat == [][StepWinnerActed]_vars

=============================================================================
